---- MODULE Spec2Model ----
(***************************************************************************)
(* Verification model of docker-traefik-netcup-companion.                  *)
(*                                                                         *)
(*  - internal/netcup/netcup.go : CircuitBreaker, doPostWithRetry         *)
(*  - internal/dns/manager.go   : Manager.ProcessHostInfo,                *)
(*                                 Manager.ReconcileFromState              *)
(*  - internal/state (state.go) : state.Manager                            *)
(*                                                                         *)
(* Eight specifications share this module:                                  *)
(*   SpecClient    : concurrent callers of doPostWithRetry over one shared *)
(*                   CircuitBreaker and a nondeterministic transport;      *)
(*   SpecProcess   : workers calling Manager.ProcessHostInfo over the      *)
(*                   session operations;                                   *)
(*   SpecReconcile : one ReconcileFromState run next to the workers;       *)
(*   SpecPolicy    : start-up (config.Load, NewManager, client options)    *)
(*                   and the backoff the retry loop computes;              *)
(*   SpecStore     : state.Manager over its state file, across restarts;   *)
(*   SpecSplit     : docker.splitHostname on every short string;           *)
(*   SpecRecover   : SpecClient with a service that recovers, and callers  *)
(*                   that keep being scheduled;                            *)
(*   SpecExecute   : one caller of doPostWithRetry at a time.              *)
(***************************************************************************)
EXTENDS Integers, Sequences, FiniteSets, TLC

(***************************************************************************)
(* Bounds of the model.                                                    *)
(***************************************************************************)
\* CircuitBreaker.threshold ranges over 1..MaxThreshold
MaxThreshold == 2
\* CircuitBreaker.halfOpenMaxReqs ranges over 1..MaxHalfOpen
MaxHalfOpen == 2
\* RetryConfig.MaxRetries ranges over 0..MaxRetriesBound
MaxRetriesBound == 2
\* the clock runs over 0..MaxTime
MaxTime == 3
\* CircuitBreaker.timeout ranges over 1..MaxTimeout ticks
MaxTimeout == 1

\* hostnames given to splitHostname have at most MaxHostLen characters
MaxHostLen == 7

\* goroutines calling doPostWithRetry concurrently
Callers == {"c1", "c2"}

(***************************************************************************)
(* Errors.  An error value is named by a string; ErrAttr gives what the    *)
(* classification code looks at: whether it is a net.Error, whether its    *)
(* Timeout()/Temporary() is true, and which of the markers that            *)
(* containsAny searches for occur in its message.                          *)
(***************************************************************************)
NilErr == "nil"
ErrCircuitOpen == "ErrCircuitOpen"
SuccessMarker == "successMarker"

\* the errors doPost can return
TransportErrs == {"netTimeout", "netRefused", "http429", "http503", "http500"}

ErrAttr(e) ==
    CASE e = "netTimeout" -> [net |-> TRUE,  tmo |-> TRUE,  markers |-> {"timeout"}]
      [] e = "netRefused" -> [net |-> TRUE,  tmo |-> FALSE, markers |-> {}]
      [] e = "http429"    -> [net |-> FALSE, tmo |-> FALSE, markers |-> {"rate limit", "429"}]
      [] e = "http503"    -> [net |-> FALSE, tmo |-> FALSE, markers |-> {"503"}]
      [] e = "http500"    -> [net |-> FALSE, tmo |-> FALSE, markers |-> {}]
      [] e = ErrCircuitOpen -> [net |-> FALSE, tmo |-> FALSE, markers |-> {}]
      [] OTHER            -> [net |-> FALSE, tmo |-> FALSE, markers |-> {}]

containsAny(e, substrs) == ErrAttr(e).markers \cap substrs # {}

isRetryableError(e) ==
    IF e = NilErr THEN FALSE
    ELSE IF e = ErrCircuitOpen THEN FALSE
    ELSE IF ErrAttr(e).net THEN ErrAttr(e).tmo
    ELSE containsAny(e, {"rate limit", "too many requests", "429", "503", "timeout"})

VARIABLES
    \* ---- CircuitBreaker (netcup.go:80-89) ----
    cb,              \* [state, failureCount, successCount, lastFailureTime]
    threshold,       \* CircuitBreaker.threshold
    timeout,         \* CircuitBreaker.timeout (clock ticks)
    halfOpenMaxReqs, \* CircuitBreaker.halfOpenMaxReqs
    maxRetries,      \* RetryConfig.MaxRetries
    now,             \* the clock read by time.Now / time.Since
    \* ---- one doPostWithRetry invocation per caller ----
    cpc,             \* position of the caller
    attempt,         \* loop variable of doPostWithRetry
    lastErr,         \* local lastErr of doPostWithRetry
    callErr,         \* err returned by circuitBreaker.Call
    result,          \* value returned by doPostWithRetry
    respBuf,         \* status field of the response body doPost returned
    \* ---- observation (history) variables ----
    transportCalls,  \* doPost invocations of the current doPostWithRetry
    sleeps,          \* time.Sleep invocations of the current doPostWithRetry
    onlyRetryable,   \* every attempt so far ran and failed with a retryable error
    probesAdmitted,  \* calls let through since the breaker last became half-open
    failRun          \* failures in a row the breaker recorded while closed

clientVars == <<cb, threshold, timeout, halfOpenMaxReqs, maxRetries, now, cpc,
                attempt, lastErr, callErr, result, respBuf, transportCalls, sleeps,
                onlyRetryable, probesAdmitted, failRun>>

VARIABLES
    \* ---- configuration read by dns.Manager (config.Config) ----
    dryRun,          \* config.DryRun
    cfgHostIP,       \* config.HostIP, "" when not set
    hasStore,        \* stateManager # nil
    \* ---- dns.Manager (manager.go:17-24) ----
    knownHosts,      \* Manager.knownHosts, the set of keys mapped to true
    mu,              \* Manager.mu: the worker holding it, or NoOne
    \* ---- one ProcessHostInfo invocation per worker ----
    pc,              \* position of the worker
    info,            \* docker.HostInfo argument
    hostIP,          \* local hostIP
    recordExists,    \* local recordExists
    ret,             \* value returned by the last ProcessHostInfo
    \* ---- the ReconcileFromState invocation ----
    rpc,             \* position
    rHostIP,         \* local hostIP
    rByDomain,       \* recordsByDomain entries not yet visited
    rDomain,         \* loop variable domain
    rQueue,          \* entries of domainRecords not yet visited
    rExisting,       \* existingMap
    rRecords,        \* *existingRecords, the records InfoDnsRecords returned
    rCount,          \* [synced, skipped, errors], the number of entries read
                     \* and the number of keys of recordsByDomain
    rPending,        \* what the entry being marked known is counted as
    rret,            \* value returned by ReconcileFromState
    cancelled,       \* ctx is done
    \* ---- the world outside the process ----
    remote,          \* records of each zone at the DNS service
    updateReq,       \* the last updateDnsRecords request the service was sent
    store,           \* state.Manager.state.Records
    crashed,         \* the runtime has aborted the process
    \* ---- observation (history) variables ----
    calls,           \* ProcessHostInfo invocations started
    callLimit,       \* ProcessHostInfo invocations the behaviour may start
    recRuns,         \* ReconcileFromState invocations started
    opLog,           \* session operations of the current ProcessHostInfo
    rOpLog,          \* session operations of the current ReconcileFromState
    storeLog,        \* store updates of the current ProcessHostInfo
    persistFailed,   \* the UpdateRecord of the current ProcessHostInfo returned an error
    decided,         \* the create/update decision the invocation reached
    phiUpserts,      \* UpdateDnsRecords calls of ProcessHostInfo per hostname
    phiUpsertsOk,    \* those that succeeded
    phiOk,           \* hostnames for which a ProcessHostInfo returned nil
    phiDone,         \* hostnames for which a ProcessHostInfo returned
    rDecision,       \* the decisions the current ReconcileFromState reached
    rWritten         \* hostnames whose UpdateDnsRecords succeeded in it

mgrVars == <<dryRun, cfgHostIP, hasStore, knownHosts, mu, pc, info, hostIP,
             recordExists, ret, rpc, rHostIP, rByDomain, rDomain, rQueue,
             rExisting, rRecords, rCount, rPending, rret, cancelled, remote, updateReq, store,
             crashed, calls,
             callLimit,
             recRuns, opLog, rOpLog, storeLog, persistFailed, decided, phiUpserts,
             phiUpsertsOk, phiOk, phiDone, rDecision, rWritten>>

VARIABLES
    \* ---- start of the process and construction of the client ----
    boot,            \* "start", "loaded" (config.Load returned), "manager"
                     \* (dns.NewManager returned) or "client" (a client built
                     \* by NewNetcupDnsClientWithOptions)
    cfg,             \* retry and breaker fields of config.Config
    retryBackoff,    \* RetryConfig.InitialBackoff/MaxBackoff (ms) and
                     \* BackoffMultiplier of the client
    lastSleep        \* the last backoff doPostWithRetry computed

policyVars == <<boot, cfg, retryBackoff, lastSleep>>

VARIABLES
    \* ---- the state file and the life of one state.Manager ----
    file,            \* content of Manager.filePath
    tmp,             \* content of Manager.filePath + ".tmp"
    spc,             \* "down" (no process), "idle", or the step of save() the
                     \* running UpdateRecord/RemoveRecord is at
    sData,           \* data, the bytes save() serialised
    sOp,             \* the running or last UpdateRecord/RemoveRecord call
    sRet,            \* error returned by the last state.NewManager,
                     \* UpdateRecord or RemoveRecord
    loadErr,         \* error load() returned to state.NewManager
    ref,             \* the map the calls that returned nil add up to, while
                     \* clean
    clean,           \* no call has failed or been cut short since ref was set
    pending          \* the last UpdateRecord/RemoveRecord that returned an
                     \* error, until a call for the same hostname begins, and
                     \* whether a later save has gone through

fileVars == <<file, tmp, spc, sData, sOp, sRet, loadErr, ref, clean, pending>>

VARIABLES
    \* ---- one splitHostname call ----
    hostname,        \* the argument, a sequence of characters
    domain,          \* the first value returned
    subdomain,       \* the second value returned
    hpc,             \* "in" before the call, "out" after it
    \* ---- the service behind the transport ----
    healthy,         \* every doPost from now on gets a response
    \* ---- observation of one doPostWithRetry from its entry ----
    track,           \* whether opStart is kept
    opStart          \* per caller, the breaker and the clock at the entry
                     \* of its current doPostWithRetry

splitVars == <<hostname, domain, subdomain, hpc>>

execVars == <<track, opStart>>

sideVars == <<splitVars, healthy, execVars>>

vars == <<clientVars, mgrVars, policyVars, fileVars, sideVars>>

(***************************************************************************)
(* CircuitBreaker                                                          *)
(***************************************************************************)
StateClosed == "closed"
StateOpen == "open"
StateHalfOpen == "halfOpen"

NewCircuitBreaker ==
    [state |-> StateClosed, failureCount |-> 0, successCount |-> 0,
     lastFailureTime |-> 0]

\* onSuccess closing the circuit one success too late
onSuccessLate(b, hmax) ==
    IF b.state = StateHalfOpen
    THEN IF b.successCount + 1 > hmax
         THEN [b EXCEPT !.state = StateClosed, !.failureCount = 0, !.successCount = 0]
         ELSE [b EXCEPT !.successCount = b.successCount + 1]
    ELSE IF b.state = StateClosed
    THEN [b EXCEPT !.failureCount = 0]
    ELSE b

\* netcup.go:660-673
onSuccess(b, hmax) ==
    IF b.state = StateHalfOpen
    THEN IF b.successCount + 1 >= hmax
         THEN [b EXCEPT !.state = StateClosed, !.failureCount = 0, !.successCount = 0]
         ELSE [b EXCEPT !.successCount = b.successCount + 1]
    ELSE IF b.state = StateClosed
    THEN [b EXCEPT !.failureCount = 0]
    ELSE b

\* onFailure opening the circuit only above the threshold
onFailureAbove(b, thr, t) ==
    LET b1 == [b EXCEPT !.failureCount = b.failureCount + 1, !.lastFailureTime = t]
    IN  IF b1.state = StateHalfOpen
        THEN [b1 EXCEPT !.state = StateOpen, !.successCount = 0]
        ELSE IF b1.state = StateClosed /\ b1.failureCount > thr
        THEN [b1 EXCEPT !.state = StateOpen]
        ELSE b1

\* netcup.go:675-687
onFailure(b, thr, t) ==
    LET b1 == [b EXCEPT !.failureCount = b.failureCount + 1, !.lastFailureTime = t]
    IN  IF b1.state = StateHalfOpen
        THEN [b1 EXCEPT !.state = StateOpen, !.successCount = 0]
        ELSE IF b1.state = StateClosed /\ b1.failureCount >= thr
        THEN [b1 EXCEPT !.state = StateOpen]
        ELSE b1

\* the gate leaving the open state as soon as the timeout is reached
CallGateEarly(b, tmo, hmax, t) ==
    LET b1 == IF b.state = StateOpen /\ t - b.lastFailureTime >= tmo
              THEN [b EXCEPT !.state = StateHalfOpen, !.successCount = 0,
                             !.failureCount = 0]
              ELSE b
        admit == /\ b1.state # StateOpen
                 /\ ~(b1.state = StateHalfOpen
                      /\ b1.successCount + b1.failureCount >= hmax)
    IN  [cb |-> b1, admit |-> admit]

\* netcup.go:622-643, the first critical section of Call: the breaker after
\* the open -> half-open check, and whether fn is executed
CallGate(b, tmo, hmax, t) ==
    LET b1 == IF b.state = StateOpen /\ t - b.lastFailureTime > tmo
              THEN [b EXCEPT !.state = StateHalfOpen, !.successCount = 0,
                             !.failureCount = 0]
              ELSE b
        admit == /\ b1.state # StateOpen
                 /\ ~(b1.state = StateHalfOpen
                      /\ b1.successCount + b1.failureCount >= hmax)
    IN  [cb |-> b1, admit |-> admit]

(***************************************************************************)
(* doPostWithRetry (netcup.go:763-812)                                     *)
(***************************************************************************)
NoResult == [kind |-> "none", cause |-> NilErr]

\* the status field of a decoded response (netcup.go:31-37); NoBuf while
\* doPost has returned no body
ResponseStatus == {"success", "error"}
NoBuf == "none"

\* a response handler that lets an error status through
handleResponseLax(st) == NilErr

\* handleResponse (netcup.go:584-606): a body whose status is "error"
\* becomes the error "<reqType> failed: ..."
handleResponse(st) ==
    IF st = "error" THEN "statusError" ELSE NilErr

\* what a session operation built as InfoDnsZone is (netcup.go:363-389)
\* returns once its doPostWithRetry has returned res with body status st
SessionOpErr(res, st) ==
    IF res.kind = "ok" THEN handleResponse(st) ELSE res.kind

\* the loop running one attempt too many
doPostWithRetryStepExtra(att, cerr, lerr, maxR) ==
    IF lerr = SuccessMarker
    THEN [next |-> "done", result |-> [kind |-> "ok", cause |-> NilErr]]
    ELSE IF cerr = ErrCircuitOpen
    THEN [next |-> "done", result |-> [kind |-> "circuitOpen", cause |-> lerr]]
    ELSE IF att > maxR
    THEN [next |-> "done", result |-> [kind |-> "maxRetries", cause |-> lerr]]
    ELSE IF ~isRetryableError(lerr)
    THEN [next |-> "done", result |-> [kind |-> "raw", cause |-> lerr]]
    ELSE [next |-> "sleep", result |-> [kind |-> "none", cause |-> NilErr]]

\* netcup.go:779-811: what the loop body does once circuitBreaker.Call has
\* returned cerr, with loop variable att and local lastErr lerr
doPostWithRetryStep(att, cerr, lerr, maxR) ==
    IF lerr = SuccessMarker
    THEN [next |-> "done", result |-> [kind |-> "ok", cause |-> NilErr]]
    ELSE IF cerr = ErrCircuitOpen
    THEN [next |-> "done", result |-> [kind |-> "circuitOpen", cause |-> lerr]]
    ELSE IF att >= maxR
    THEN [next |-> "done", result |-> [kind |-> "maxRetries", cause |-> lerr]]
    ELSE IF ~isRetryableError(lerr)
    THEN [next |-> "done", result |-> [kind |-> "raw", cause |-> lerr]]
    ELSE [next |-> "sleep", result |-> NoResult]

\* entry of doPostWithRetry: lastErr is nil, attempt := 0
StartOp(c) ==
    /\ cpc[c] \in {"idle", "done"}
    /\ cpc' = [cpc EXCEPT ![c] = "call"]
    /\ attempt' = [attempt EXCEPT ![c] = 0]
    /\ lastErr' = [lastErr EXCEPT ![c] = NilErr]
    /\ callErr' = [callErr EXCEPT ![c] = NilErr]
    /\ result' = [result EXCEPT ![c] = NoResult]
    /\ respBuf' = [respBuf EXCEPT ![c] = NoBuf]
    /\ transportCalls' = [transportCalls EXCEPT ![c] = 0]
    /\ sleeps' = [sleeps EXCEPT ![c] = 0]
    /\ onlyRetryable' = [onlyRetryable EXCEPT ![c] = TRUE]
    /\ opStart' = IF track THEN [opStart EXCEPT ![c] = [cb |-> cb, t |-> now]]
                  ELSE opStart
    /\ UNCHANGED <<mgrVars, policyVars, fileVars, splitVars, healthy, track>>
    /\ UNCHANGED <<cb, threshold, timeout, halfOpenMaxReqs, maxRetries, now,
                   probesAdmitted, failRun>>

\* CircuitBreaker.Call, first critical section (netcup.go:622-643)
CallEnter(c) ==
    /\ cpc[c] = "call"
    /\ LET g == CallGate(cb, timeout, halfOpenMaxReqs, now)
           opened == cb.state = StateOpen /\ g.cb.state = StateHalfOpen
           base == IF opened THEN 0 ELSE probesAdmitted
       IN  /\ cb' = g.cb
           /\ IF g.admit
              THEN /\ cpc' = [cpc EXCEPT ![c] = "fn"]
                   /\ probesAdmitted' =
                        IF g.cb.state = StateHalfOpen THEN base + 1 ELSE 0
                   /\ UNCHANGED <<callErr, onlyRetryable>>
              ELSE /\ cpc' = [cpc EXCEPT ![c] = "check"]
                   /\ callErr' = [callErr EXCEPT ![c] = ErrCircuitOpen]
                   /\ onlyRetryable' = [onlyRetryable EXCEPT ![c] = FALSE]
                   /\ probesAdmitted' =
                        IF g.cb.state = StateHalfOpen THEN base ELSE 0
    /\ UNCHANGED <<mgrVars, policyVars, fileVars, sideVars>>
    /\ UNCHANGED <<threshold, timeout, halfOpenMaxReqs, maxRetries, respBuf, now, attempt,
                   lastErr, result, transportCalls, sleeps, failRun>>

\* what one doPost can return (netcup.go:824-868): a response, or one of
\* its errors while the service is not known to answer
Outcomes(h) ==
    IF h THEN {SuccessMarker} ELSE TransportErrs \cup {SuccessMarker}

\* fn(): the closure of doPostWithRetry calling doPost (netcup.go:768-777);
\* the transport outcome is any error doPost can return, or a response
doPost(c) ==
    /\ cpc[c] = "fn"
    /\ \E out \in Outcomes(healthy) :
          /\ lastErr' = [lastErr EXCEPT ![c] = out]
          /\ IF out = SuccessMarker
             THEN \E st \in ResponseStatus : respBuf' = [respBuf EXCEPT ![c] = st]
             ELSE UNCHANGED respBuf
          /\ onlyRetryable' = [onlyRetryable EXCEPT ![c] = @ /\ isRetryableError(out)]
    /\ transportCalls' = [transportCalls EXCEPT ![c] = @ + 1]
    /\ cpc' = [cpc EXCEPT ![c] = "exit"]
    /\ UNCHANGED <<mgrVars, policyVars, fileVars, sideVars>>
    /\ UNCHANGED <<cb, threshold, timeout, halfOpenMaxReqs, maxRetries, now, attempt,
                   callErr, result, sleeps, probesAdmitted, failRun>>

\* a closure that looks into the body and returns its error status
fnReturnStatus(out, st) ==
    IF out = SuccessMarker THEN handleResponse(st) ELSE out

\* what the closure given to circuitBreaker.Call returns (netcup.go:768-777)
\* when doPost returned out, with a body of status st if it returned one:
\* the error of doPost, nil for any body
fnReturn(out, st) ==
    IF out = SuccessMarker THEN NilErr ELSE out

\* CircuitBreaker.Call, second critical section (netcup.go:648-657)
CallExit(c) ==
    /\ cpc[c] = "exit"
    /\ IF fnReturn(lastErr[c], respBuf[c]) = NilErr
       THEN /\ cb' = onSuccess(cb, halfOpenMaxReqs)
            /\ callErr' = [callErr EXCEPT ![c] = NilErr]
       ELSE /\ cb' = onFailure(cb, threshold, now)
            /\ callErr' = [callErr EXCEPT ![c] = fnReturn(lastErr[c], respBuf[c])]
    /\ probesAdmitted' = IF cb'.state = StateHalfOpen THEN probesAdmitted ELSE 0
    /\ failRun' = IF cb.state = StateClosed
                  THEN IF lastErr[c] = SuccessMarker THEN 0 ELSE failRun + 1
                  ELSE IF cb'.state = StateClosed THEN 0 ELSE failRun
    /\ cpc' = [cpc EXCEPT ![c] = "check"]
    /\ UNCHANGED <<mgrVars, policyVars, fileVars, sideVars>>
    /\ UNCHANGED <<threshold, timeout, halfOpenMaxReqs, maxRetries, respBuf, now, attempt,
                   lastErr, result, transportCalls, sleeps, onlyRetryable>>

\* the rest of the loop body up to the sleep (netcup.go:779-805, 811)
RetryCheck(c) ==
    /\ cpc[c] = "check"
    /\ LET d == doPostWithRetryStep(attempt[c], callErr[c], lastErr[c], maxRetries)
       IN  /\ cpc' = [cpc EXCEPT ![c] = d.next]
           /\ result' = [result EXCEPT ![c] = d.result]
    /\ UNCHANGED <<mgrVars, policyVars, fileVars, sideVars>>
    /\ UNCHANGED <<cb, threshold, timeout, halfOpenMaxReqs, maxRetries, respBuf, now, attempt,
                   lastErr, callErr, transportCalls, sleeps, onlyRetryable,
                   probesAdmitted, failRun>>

\* time.Sleep(backoff) and the loop increment (netcup.go:808, 766); the
\* clock advances by Tick while the caller sleeps
Sleep(c) ==
    /\ cpc[c] = "sleep"
    /\ sleeps' = [sleeps EXCEPT ![c] = @ + 1]
    /\ attempt' = [attempt EXCEPT ![c] = @ + 1]
    /\ cpc' = [cpc EXCEPT ![c] = "call"]
    /\ UNCHANGED <<mgrVars, policyVars, fileVars, sideVars>>
    /\ UNCHANGED <<cb, threshold, timeout, halfOpenMaxReqs, maxRetries, respBuf, now,
                   lastErr, callErr, result, transportCalls, onlyRetryable,
                   probesAdmitted, failRun>>

Tick ==
    /\ now < MaxTime
    /\ now' = now + 1
    /\ UNCHANGED <<mgrVars, policyVars, fileVars, sideVars>>
    /\ UNCHANGED <<cb, threshold, timeout, halfOpenMaxReqs, maxRetries, respBuf, cpc, attempt,
                   lastErr, callErr, result, transportCalls, sleeps, onlyRetryable,
                   probesAdmitted, failRun>>


(***************************************************************************)
(* Configuration and construction of the client: config.Load               *)
(* (config.go), dns.NewManager (manager.go:26-37),                         *)
(* NewNetcupDnsClientWithOptions (netcup.go:270-332) and                   *)
(* RetryConfig.calculateBackoff (netcup.go:749-760).  Durations are in     *)
(* milliseconds, the breaker timeout in seconds.                           *)
(***************************************************************************)
\* RetryConfig.MaxRetries of a client built with options ranges over
\* 0..MaxPolicyRetries
MaxPolicyRetries == 3

\* netcup.go:272-277
DefaultRetryConfig ==
    [MaxRetries |-> 3, InitialBackoff |-> 1000, MaxBackoff |-> 30000,
     BackoffMultiplier |-> 2]

\* netcup.go:282-287
DefaultCircuitBreaker ==
    [threshold |-> 5, timeout |-> 60, halfOpenMaxReqs |-> 3]

NoCfg == [loaded |-> FALSE]
NoSleep == [attempt |-> -1, err |-> NilErr, backoff |-> 0]

\* values of the NC_* variables config.Load may find (getEnvAsInt and
\* getEnvAsFloat accept any number; unset variables give the defaults)
EnvConfigs ==
    [loaded : {TRUE},
     MaxRetries : {3, 5}, InitialBackoff : {1000, 500},
     MaxBackoff : {30000, 10000}, BackoffMultiplier : {2, 3},
     CircuitBreakerThreshold : {5, 2}, CircuitBreakerTimeout : {60, 10},
     CircuitBreakerHalfOpenReqs : {3, 1}]

\* config.Load with none of the NC_* policy variables set (config.go)
DefaultConfig ==
    [loaded |-> TRUE,
     MaxRetries |-> 3, InitialBackoff |-> 1000, MaxBackoff |-> 30000,
     BackoffMultiplier |-> 2, CircuitBreakerThreshold |-> 5,
     CircuitBreakerTimeout |-> 60, CircuitBreakerHalfOpenReqs |-> 3]

\* RetryConfig values a caller of NewNetcupDnsClientWithOptions may pass
OptRetryConfigs ==
    [MaxRetries : 0..MaxPolicyRetries, InitialBackoff : {1000, 40000},
     MaxBackoff : {4000, 30000}, BackoffMultiplier : {1, 2}]

RECURSIVE Pow(_, _)
Pow(b, n) == IF n <= 0 THEN 1 ELSE b * Pow(b, n - 1)

Min2(a, b) == IF a <= b THEN a ELSE b

\* RetryConfig.calculateBackoff (netcup.go:749-760)
calculateBackoff(rc, att) ==
    IF att <= 0 THEN rc.InitialBackoff
    ELSE LET backoff == rc.InitialBackoff * Pow(rc.BackoffMultiplier, att)
         IN  IF backoff > rc.MaxBackoff THEN rc.MaxBackoff ELSE backoff

\* netcup.go:799-808: the duration doPostWithRetry sleeps after attempt att
\* failed with the retryable error e
SleepDuration(rc, att, e) ==
    IF containsAny(e, {"rate limit", "429"})
    THEN calculateBackoff(rc, att) * 2
    ELSE calculateBackoff(rc, att)

\* client variables no step of the construction touches
clientRun == <<cb, now, cpc, attempt, lastErr, callErr, result, respBuf,
               transportCalls, sleeps, onlyRetryable, probesAdmitted, failRun>>

\* config.Load (config.go): the policy fields come from the environment
Load ==
    /\ boot = "start"
    /\ cfg' \in EnvConfigs
    /\ boot' = "loaded"
    /\ UNCHANGED <<clientVars, mgrVars, fileVars, sideVars, retryBackoff, lastSleep>>

\* the policy NewNetcupDnsClientWithOptions installs for the options
\* (netcup.go:272-290); rcOpt is opts.RetryConfig or NoCfg for nil
InstallPolicy(rcOpt) ==
    LET rc == IF rcOpt = NoCfg THEN DefaultRetryConfig ELSE rcOpt
    IN  /\ maxRetries' = rc.MaxRetries
        /\ retryBackoff' = [InitialBackoff |-> rc.InitialBackoff,
                            MaxBackoff |-> rc.MaxBackoff,
                            BackoffMultiplier |-> rc.BackoffMultiplier]
        /\ threshold' = DefaultCircuitBreaker.threshold
        /\ timeout' = DefaultCircuitBreaker.timeout
        /\ halfOpenMaxReqs' = DefaultCircuitBreaker.halfOpenMaxReqs

\* dns.NewManager(cfg, stateManager) (manager.go:26-37): the client is built
\* by netcup.NewNetcupDnsClient, that is with empty options
NewManager ==
    /\ boot = "loaded"
    /\ InstallPolicy(NoCfg)
    /\ boot' = "manager"
    /\ UNCHANGED <<clientRun, mgrVars, fileVars, sideVars, cfg, lastSleep>>

\* NewNetcupDnsClientWithOptions called with a RetryConfig of the caller
NewNetcupDnsClientWithOptions ==
    /\ boot = "start"
    /\ \E rc \in OptRetryConfigs : InstallPolicy(rc)
    /\ boot' = "client"
    /\ UNCHANGED <<clientRun, mgrVars, fileVars, sideVars, cfg, lastSleep>>

\* netcup.go:799-808 in a doPostWithRetry of the built client: attempt att,
\* not the last one, failed with a retryable error and the backoff is
\* computed
Backoff ==
    /\ boot \in {"manager", "client"}
    /\ \E att \in 0..(maxRetries - 1) :
       \E e \in {x \in TransportErrs : isRetryableError(x)} :
          lastSleep' = [attempt |-> att, err |-> e,
                        backoff |-> SleepDuration(retryBackoff, att, e)]
    /\ UNCHANGED <<clientVars, mgrVars, fileVars, sideVars, boot, cfg, retryBackoff>>

\* the policy variables of a client dns.NewManager built
PolicyQuiet ==
    /\ boot = "manager"
    /\ cfg = DefaultConfig
    /\ retryBackoff = [InitialBackoff |-> DefaultRetryConfig.InitialBackoff,
                       MaxBackoff |-> DefaultRetryConfig.MaxBackoff,
                       BackoffMultiplier |-> DefaultRetryConfig.BackoffMultiplier]
    /\ lastSleep = NoSleep

(***************************************************************************)
(* docker.splitHostname (watcher.go:156-176).  A hostname is the sequence  *)
(* of the labels strings.Split(hostname, ".") returns; a domain and a      *)
(* subdomain are sequences of labels as well (strings.Join).               *)
(***************************************************************************)
splitHostname(parts) ==
    IF Len(parts) < 2
    THEN [domain |-> parts, subdomain |-> <<"@">>]
    ELSE IF Len(parts) = 2
    THEN [domain |-> parts, subdomain |-> <<"@">>]
    ELSE [domain |-> SubSeq(parts, Len(parts) - 1, Len(parts)),
          subdomain |-> SubSeq(parts, 1, Len(parts) - 2)]

\* extractHostsFromLabels (watcher.go:135-144): the HostInfo of a hostname
HostInfo(h) ==
    [Hostname |-> h, Domain |-> splitHostname(h).domain,
     Subdomain |-> splitHostname(h).subdomain]

(***************************************************************************)
(* splitHostname on strings.  A string is the sequence of its characters.  *)
(***************************************************************************)
Chars == {"a", "b", "."}
Strings(n) == UNION {[1..k -> Chars] : k \in 0..n}
At == <<"@">>

\* strings.Split(hostname, ".") (watcher.go:160): the pieces between the
\* dots, empty pieces included; one piece for a string without a dot
RECURSIVE Split(_)
Split(s) ==
    LET dots == {i \in 1..Len(s) : s[i] = "."}
    IN  IF dots = {} THEN <<s>>
        ELSE LET i == CHOOSE k \in dots : \A j \in dots : k <= j
             IN  <<SubSeq(s, 1, i - 1)>> \o Split(SubSeq(s, i + 1, Len(s)))

\* strings.Join(parts, ".") (watcher.go:172-173)
RECURSIVE Join(_)
Join(ps) ==
    IF Len(ps) = 0 THEN <<>>
    ELSE IF Len(ps) = 1 THEN ps[1]
    ELSE ps[1] \o <<".">> \o Join(Tail(ps))

\* splitHostname without its case for two labels
splitHostnameStringLong(h) ==
    LET parts == Split(h)
    IN  IF Len(parts) < 2
        THEN [domain |-> h, subdomain |-> At]
        ELSE [domain |-> Join(SubSeq(parts, Len(parts) - 1, Len(parts))),
              subdomain |-> Join(SubSeq(parts, 1, Len(parts) - 2))]

\* splitHostname (watcher.go:159-176) on the string
splitHostnameString(h) ==
    LET parts == Split(h)
    IN  IF Len(parts) < 2
        THEN [domain |-> h, subdomain |-> At]
        ELSE IF Len(parts) = 2
        THEN [domain |-> h, subdomain |-> At]
        ELSE [domain |-> Join(SubSeq(parts, Len(parts) - 1, Len(parts))),
              subdomain |-> Join(SubSeq(parts, 1, Len(parts) - 2))]

\* domain, subdomain := splitHostname(hostname) (watcher.go:136)
SplitHostname ==
    /\ hpc = "in"
    /\ domain' = splitHostnameString(hostname).domain
    /\ subdomain' = splitHostnameString(hostname).subdomain
    /\ hpc' = "out"
    /\ UNCHANGED <<clientVars, mgrVars, policyVars, fileVars, hostname, healthy,
                   execVars>>

(***************************************************************************)
(* dns.Manager                                                             *)
(***************************************************************************)
\* ProcessHostInfo invocations in one behaviour of SpecProcess
MaxCalls == 2
\* ProcessHostInfo invocations in one behaviour of SpecReconcile
MaxCallsRec == 1
\* ReconcileFromState invocations in one behaviour
MaxReconcile == 1

Workers == {"w1", "w2"}
NoOne == "none"
Hosts == {<<"app", "example", "com">>, <<"www", "example", "com">>,
          <<"example", "org">>}
Zones == {HostInfo(h).Domain : h \in Hosts}

Rec(sub, typ, ip) == [Hostname |-> sub, Type |-> typ, Destination |-> ip]

\* state.DNSRecord as UpdateRecord builds it (state.go:109-116)
Entry(h, dom, sub, ip, typ) ==
    [Hostname |-> h, Domain |-> dom, Subdomain |-> sub, IP |-> ip,
     RecordType |-> typ]

EmptyMap == [x \in {} |-> x]

Min(S) == CHOOSE x \in S : \A y \in S : x <= y
Max(S) == CHOOSE x \in S : \A y \in S : x >= y

\* indices of the records the scans look at (manager.go:92, 207)
MatchIdx(records, sub) ==
    {i \in DOMAIN records : records[i].Hostname = sub /\ records[i].Type = "A"}

\* the scan taking a later matching record instead of the first
ClassifyLast(records, sub, ip) ==
    LET idx == MatchIdx(records, sub)
    IN  IF idx = {} THEN "create"
        ELSE IF records[Max(idx)].Destination = ip THEN "insync"
        ELSE "update"

\* manager.go:88-103: the scan of ProcessHostInfo; the first record matching
\* (Subdomain, "A") decides
Classify(records, sub, ip) ==
    LET idx == MatchIdx(records, sub)
    IN  IF idx = {} THEN "create"
        ELSE IF records[Min(idx)].Destination = ip THEN "insync"
        ELSE "update"

\* manager.go:204-210: existingMap, a later "A" record overwrites an earlier
existingMap(records) ==
    [sub \in {records[i].Hostname : i \in {j \in DOMAIN records : records[j].Type = "A"}}
        |-> records[Max(MatchIdx(records, sub))].Destination]

\* manager.go:220-247: the decision of ReconcileFromState for one entry
ReconcileClassify(existing, sub, ip) ==
    IF sub \in DOMAIN existing /\ existing[sub] = ip THEN "insync"
    ELSE IF sub \in DOMAIN existing THEN "update"
    ELSE "create"

\* the known-hosts check always missing
IsKnownNever(known, h) == FALSE

\* manager.go:44: m.knownHosts[info.Hostname]
IsKnown(known, h) == h \in known

\* dry-run ignored
DryRunSkipsNever(dry) == FALSE

\* manager.go:105, 232: if m.config.DryRun
DryRunSkips(dry) == dry

RECURSIVE ApplyUpdate(_, _)

\* the DNS service applying updateDnsRecords for one "A" record
\* (netcup.go:454-486): matching records take the new destination, and the
\* record is added when none matches
ApplyUpsert(records, sub, ip) ==
    IF MatchIdx(records, sub) # {}
    THEN [i \in DOMAIN records |->
            IF i \in MatchIdx(records, sub)
            THEN [records[i] EXCEPT !.Destination = ip] ELSE records[i]]
    ELSE Append(records, Rec(sub, "A", ip))

\* the service applying the records of one updateDnsRecords request in turn
ApplyUpdate(records, set) ==
    IF set = <<>> THEN records
    ELSE ApplyUpdate(ApplyUpsert(records, set[1].Hostname, set[1].Destination),
                     Tail(set))

\* a record of another type sent instead
newRecordAAAA(sub, ip) == Rec(sub, "AAAA", ip)

\* manager.go:118-123, 251-256: the record ProcessHostInfo and
\* ReconcileFromState build for (Subdomain, hostIP)
newRecord(sub, ip) == Rec(sub, "A", ip)

\* manager.go:131, 258: recordSet := []netcup.DnsRecord{newRecord}
recordSet(sub, ip) == <<newRecord(sub, ip)>>

\* no updateDnsRecords request has been sent
NoReq == [zone |-> <<>>, set |-> <<>>]

\* state.Manager.UpdateRecord on the in-memory map (state.go:118)
UpdateRecord(st, h, dom, sub, ip, typ) ==
    [x \in DOMAIN st \cup {h} |->
        IF x = h THEN Entry(h, dom, sub, ip, typ) ELSE st[x]]

\* the orders in which a slice can list the elements of S
Perms(S) ==
    {q \in [1..Cardinality(S) -> S] : \A i, j \in DOMAIN q : q[i] = q[j] => i = j}

\* getHostIP (manager.go:284-302): the address of the outbound interface,
\* or an error
HostIPResults == {"ip2", "error"}

\* a Lock that does not wait
MutexFreeAlways(m) == TRUE

\* m.mu.Lock() (manager.go:40) returns only when no one holds the mutex
MutexFree(m) == m = NoOne

\* a session that is never closed
DeferredLogoutNever(loggedIn) == FALSE

\* defer session.Logout() (manager.go:72, 185) is registered once Login has
\* returned a session, and not on the return for a failed Login
DeferredLogout(loggedIn) == loggedIn

\* where ProcessHostInfo goes when it returns: through the deferred Logout
\* when there is one, then to the deferred Unlock
PhiExit(loggedIn) == IF DeferredLogout(loggedIn) THEN "logout" ELSE "unlock"

\* the same for ReconcileFromState, which holds no lock
RecExit(loggedIn) == IF DeferredLogout(loggedIn) THEN "logout" ELSE "done"

\* a context that is never seen cancelled
ctxDoneNever(c) == FALSE

\* manager.go:214-218: select on ctx.Done() with a default case
ctxDone(c) == c

\* the persisted address taken as the expected one
expectedIPPersisted(record, ip) == record.IP

\* manager.go:223: expectedIP := hostIP
expectedIP(record, ip) == ip

\* a reconciliation that gives up at the first error
RecAfterErrorAborts(loop) == RecExit(TRUE)

\* manager.go:198-202, 260-265: after a failed InfoDnsRecords or
\* UpdateDnsRecords ReconcileFromState continues with the next iteration of
\* the loop the call is in
RecAfterError(loop) == loop

\* a failed update treated as a successful one
AfterUpsertMarks(ok) == "mark"

\* manager.go:132-138: an error of UpdateDnsRecords returns before
\* knownHosts is written
AfterUpsert(ok) == IF ok THEN "mark" ELSE PhiExit(TRUE)

\* an error of the store returned to the caller
AfterPersistEscalates(ok) == IF ok THEN "nil" ELSE "errPersist"

\* manager.go:142-154: the error of stateManager.UpdateRecord is logged and
\* ProcessHostInfo returns nil
AfterPersist(ok) == "nil"

cfgVars == <<dryRun, cfgHostIP, hasStore>>
recVars == <<rpc, rHostIP, rByDomain, rDomain, rQueue, rExisting, rRecords, rCount,
             rPending, rret, rOpLog, recRuns, rDecision, rWritten>>
wkVars == <<pc, info, hostIP, recordExists, ret, opLog, storeLog, persistFailed,
           decided, calls,
           callLimit>>
histVars == <<phiUpserts, phiUpsertsOk, phiOk, phiDone>>

(***************************************************************************)
(* Manager.ProcessHostInfo (manager.go:39-155)                             *)
(***************************************************************************)
\* a worker calls ProcessHostInfo(ctx, info)
PHI_Start(w) ==
    /\ ~crashed
    /\ pc[w] = "idle"
    /\ calls < callLimit
    /\ calls' = calls + 1
    /\ \E h \in Hosts : info' = [info EXCEPT ![w] = HostInfo(h)]
    /\ pc' = [pc EXCEPT ![w] = "lock"]
    /\ hostIP' = [hostIP EXCEPT ![w] = ""]
    /\ recordExists' = [recordExists EXCEPT ![w] = FALSE]
    /\ ret' = [ret EXCEPT ![w] = "none"]
    /\ opLog' = [opLog EXCEPT ![w] = <<>>]
    /\ storeLog' = [storeLog EXCEPT ![w] = 0]
    /\ persistFailed' = [persistFailed EXCEPT ![w] = FALSE]
    /\ decided' = [decided EXCEPT ![w] = "none"]
    /\ UNCHANGED <<clientVars, policyVars, fileVars, sideVars, cfgVars, recVars, histVars, knownHosts, mu,
                   callLimit, cancelled, remote, updateReq, store, crashed>>

\* m.mu.Lock() (manager.go:40)
PHI_Lock(w) ==
    /\ ~crashed
    /\ pc[w] = "lock"
    /\ MutexFree(mu)
    /\ mu' = w
    /\ pc' = [pc EXCEPT ![w] = "check"]
    /\ UNCHANGED <<clientVars, policyVars, fileVars, sideVars, cfgVars, recVars, histVars, knownHosts, info,
                   hostIP, recordExists, ret, opLog, storeLog, persistFailed, decided, calls,
                   callLimit, cancelled, remote, updateReq, store, crashed>>

\* the known-hosts check and the host address (manager.go:43-62)
PHI_Check(w) ==
    /\ ~crashed
    /\ pc[w] = "check"
    /\ IF IsKnown(knownHosts, info[w].Hostname)
       THEN /\ ret' = [ret EXCEPT ![w] = "nil"]
            /\ pc' = [pc EXCEPT ![w] = "unlock"]
            /\ UNCHANGED hostIP
       ELSE IF cfgHostIP # ""
       THEN /\ hostIP' = [hostIP EXCEPT ![w] = cfgHostIP]
            /\ pc' = [pc EXCEPT ![w] = "login"]
            /\ UNCHANGED ret
       ELSE \E r \in HostIPResults :
              IF r = "error"
              THEN /\ ret' = [ret EXCEPT ![w] = "errHostIP"]
                   /\ pc' = [pc EXCEPT ![w] = "unlock"]
                   /\ UNCHANGED hostIP
              ELSE /\ hostIP' = [hostIP EXCEPT ![w] = r]
                   /\ pc' = [pc EXCEPT ![w] = "login"]
                   /\ UNCHANGED ret
    /\ UNCHANGED <<clientVars, policyVars, fileVars, sideVars, cfgVars, recVars, histVars, knownHosts, mu, info,
                   recordExists, opLog, storeLog, persistFailed, decided, calls, callLimit, cancelled,
                   remote, updateReq, store, crashed>>

\* m.client.Login() (manager.go:66-72)
PHI_Login(w) ==
    /\ ~crashed
    /\ pc[w] = "login"
    /\ opLog' = [opLog EXCEPT ![w] = Append(@, "Login")]
    /\ \E ok \in BOOLEAN :
          IF ok
          THEN /\ pc' = [pc EXCEPT ![w] = "zone"]
               /\ UNCHANGED ret
          ELSE /\ ret' = [ret EXCEPT ![w] = "errLogin"]
               /\ pc' = [pc EXCEPT ![w] = PhiExit(FALSE)]
    /\ UNCHANGED <<clientVars, policyVars, fileVars, sideVars, cfgVars, recVars, histVars, knownHosts, mu, info,
                   hostIP, recordExists, storeLog, persistFailed, decided, calls, callLimit, cancelled,
                   remote, updateReq, store, crashed>>

\* session.InfoDnsZone(info.Domain) (manager.go:74-79)
PHI_Zone(w) ==
    /\ ~crashed
    /\ pc[w] = "zone"
    /\ opLog' = [opLog EXCEPT ![w] = Append(@, "InfoDnsZone")]
    /\ \E ok \in BOOLEAN :
          IF ok
          THEN /\ pc' = [pc EXCEPT ![w] = "records"]
               /\ UNCHANGED ret
          ELSE /\ ret' = [ret EXCEPT ![w] = "errZone"]
               /\ pc' = [pc EXCEPT ![w] = PhiExit(TRUE)]
    /\ UNCHANGED <<clientVars, policyVars, fileVars, sideVars, cfgVars, recVars, histVars, knownHosts, mu, info,
                   hostIP, recordExists, storeLog, persistFailed, decided, calls, callLimit, cancelled,
                   remote, updateReq, store, crashed>>

\* session.InfoDnsRecords(info.Domain) and the scan of the records
\* (manager.go:81-103), up to the write of knownHosts
PHI_Records(w) ==
    /\ ~crashed
    /\ pc[w] = "records"
    /\ opLog' = [opLog EXCEPT ![w] = Append(@, "InfoDnsRecords")]
    /\ \E ok \in BOOLEAN :
          IF ok
          THEN LET d == Classify(remote[info[w].Domain], info[w].Subdomain,
                                 hostIP[w])
               IN  /\ decided' = [decided EXCEPT ![w] = d]
                   /\ recordExists' = [recordExists EXCEPT ![w] = (d = "update")]
                   /\ pc' = [pc EXCEPT ![w] =
                               IF d = "insync" \/ DryRunSkips(dryRun)
                               THEN "mark" ELSE "upsert"]
                   /\ UNCHANGED ret
          ELSE /\ ret' = [ret EXCEPT ![w] = "errRecords"]
               /\ pc' = [pc EXCEPT ![w] = PhiExit(TRUE)]
               /\ UNCHANGED <<decided, recordExists>>
    /\ UNCHANGED <<clientVars, policyVars, fileVars, sideVars, cfgVars, recVars, histVars, knownHosts, mu, info,
                   hostIP, storeLog, persistFailed, calls, callLimit, cancelled, remote, updateReq, store, crashed>>

\* session.UpdateDnsRecords(info.Domain, &recordSet) (manager.go:117-136)
PHI_Upsert(w) ==
    /\ ~crashed
    /\ pc[w] = "upsert"
    /\ opLog' = [opLog EXCEPT ![w] = Append(@, "UpdateDnsRecords")]
    /\ phiUpserts' = [phiUpserts EXCEPT ![info[w].Hostname] = @ + 1]
    /\ updateReq' = [zone |-> info[w].Domain,
                     set |-> recordSet(info[w].Subdomain, hostIP[w])]
    /\ \E ok \in BOOLEAN :
          IF ok
          THEN /\ remote' = [remote EXCEPT ![info[w].Domain] =
                               ApplyUpdate(@, recordSet(info[w].Subdomain, hostIP[w]))]
               /\ phiUpsertsOk' = [phiUpsertsOk EXCEPT ![info[w].Hostname] = @ + 1]
               /\ pc' = [pc EXCEPT ![w] = AfterUpsert(TRUE)]
               /\ UNCHANGED ret
          ELSE /\ ret' = [ret EXCEPT ![w] = "errUpdate"]
               /\ pc' = [pc EXCEPT ![w] = AfterUpsert(FALSE)]
               /\ UNCHANGED <<remote, phiUpsertsOk>>
    /\ UNCHANGED <<clientVars, policyVars, fileVars, sideVars, cfgVars, recVars, knownHosts, mu, info, hostIP,
                   recordExists, storeLog, persistFailed, decided, calls, callLimit, cancelled, store,
                   crashed, phiOk, phiDone>>

\* m.knownHosts[info.Hostname] = true (manager.go:96, 113, 138); the
\* in-sync and dry-run paths return nil here
PHI_Mark(w) ==
    /\ ~crashed
    /\ pc[w] = "mark"
    /\ knownHosts' = knownHosts \cup {info[w].Hostname}
    /\ IF decided[w] = "insync" \/ DryRunSkips(dryRun)
       THEN /\ ret' = [ret EXCEPT ![w] = "nil"]
            /\ pc' = [pc EXCEPT ![w] = PhiExit(TRUE)]
       ELSE /\ pc' = [pc EXCEPT ![w] = "persist"]
            /\ UNCHANGED ret
    /\ UNCHANGED <<clientVars, policyVars, fileVars, sideVars, cfgVars, recVars, histVars, mu, info, hostIP,
                   recordExists, opLog, storeLog, persistFailed, decided, calls, callLimit, cancelled,
                   remote, updateReq, store, crashed>>

\* m.stateManager.UpdateRecord(...) when there is a state manager; its error
\* is only logged (manager.go:141-154)
PHI_Persist(w) ==
    /\ ~crashed
    /\ pc[w] = "persist"
    /\ IF hasStore
       THEN \E ok \in BOOLEAN :
              /\ store' = UpdateRecord(store, info[w].Hostname, info[w].Domain,
                                       info[w].Subdomain, hostIP[w], "A")
              /\ storeLog' = [storeLog EXCEPT ![w] = @ + 1]
              /\ persistFailed' = [persistFailed EXCEPT ![w] = ~ok]
              /\ ret' = [ret EXCEPT ![w] = AfterPersist(ok)]
       ELSE /\ UNCHANGED <<store, storeLog, persistFailed>>
            /\ ret' = [ret EXCEPT ![w] = AfterPersist(TRUE)]
    /\ pc' = [pc EXCEPT ![w] = PhiExit(TRUE)]
    /\ UNCHANGED <<clientVars, policyVars, fileVars, sideVars, cfgVars, recVars, histVars, knownHosts, mu, info,
                   hostIP, recordExists, opLog, decided, calls, callLimit, cancelled,
                   remote, updateReq, crashed>>

\* the deferred session.Logout() (manager.go:72); its result is dropped
PHI_Logout(w) ==
    /\ ~crashed
    /\ pc[w] = "logout"
    /\ opLog' = [opLog EXCEPT ![w] = Append(@, "Logout")]
    /\ pc' = [pc EXCEPT ![w] = "unlock"]
    /\ UNCHANGED <<clientVars, policyVars, fileVars, sideVars, cfgVars, recVars, histVars, knownHosts, mu, info,
                   hostIP, recordExists, ret, storeLog, persistFailed, decided, calls,
                   callLimit, cancelled, remote, updateReq, store, crashed>>

\* the locals of a worker that is not inside ProcessHostInfo
NoInfo == [Hostname |-> <<>>, Domain |-> <<>>, Subdomain |-> <<>>]

\* the deferred m.mu.Unlock() (manager.go:41) and the return; the locals of
\* the invocation are gone afterwards
PHI_Unlock(w) ==
    /\ ~crashed
    /\ pc[w] = "unlock"
    /\ mu' = NoOne
    /\ pc' = [pc EXCEPT ![w] = "idle"]
    /\ phiOk' = IF ret[w] = "nil" THEN phiOk \cup {info[w].Hostname} ELSE phiOk
    /\ phiDone' = phiDone \cup {info[w].Hostname}
    /\ info' = [info EXCEPT ![w] = NoInfo]
    /\ hostIP' = [hostIP EXCEPT ![w] = ""]
    /\ recordExists' = [recordExists EXCEPT ![w] = FALSE]
    /\ ret' = [ret EXCEPT ![w] = "none"]
    /\ opLog' = [opLog EXCEPT ![w] = <<>>]
    /\ storeLog' = [storeLog EXCEPT ![w] = 0]
    /\ persistFailed' = [persistFailed EXCEPT ![w] = FALSE]
    /\ decided' = [decided EXCEPT ![w] = "none"]
    /\ UNCHANGED <<clientVars, policyVars, fileVars, sideVars, cfgVars, recVars, knownHosts, calls, callLimit,
                   cancelled, remote, updateReq, store, crashed, phiUpserts, phiUpsertsOk>>

(***************************************************************************)
(* Manager.ReconcileFromState (manager.go:159-282).  It does not take      *)
(* Manager.mu.                                                             *)
(***************************************************************************)
ZeroCount == [synced |-> 0, skipped |-> 0, errors |-> 0, total |-> 0, zones |-> 0]

\* a store that always reports records
HasRecordsAlways(st) == TRUE

\* state.Manager.HasRecords (state.go:185-190)
HasRecords(st) == DOMAIN st # {}

\* entry, the persisted records and the host address (manager.go:160-178)
R_Start ==
    /\ ~crashed
    /\ rpc \in {"idle", "done"}
    /\ recRuns < MaxReconcile
    /\ recRuns' = recRuns + 1
    /\ rOpLog' = <<>>
    /\ rDecision' = EmptyMap
    /\ rWritten' = {}
    /\ rDomain' = <<>> /\ rQueue' = <<>> /\ rExisting' = EmptyMap
    /\ rRecords' = <<>>
    /\ rPending' = "none"
    /\ IF ~hasStore \/ ~HasRecords(store)
       THEN /\ rpc' = "done" /\ rret' = "nil"
            /\ rCount' = ZeroCount
            /\ rByDomain' = EmptyMap /\ rHostIP' = ""
       ELSE /\ rCount' = [ZeroCount EXCEPT
                               !.total = Cardinality(DOMAIN store),
                               !.zones = Cardinality({store[h].Domain :
                                                        h \in DOMAIN store})]
            \* recordsByDomain (manager.go:187-191), in the order in which
            \* GetRecordsForReconciliation listed the map
            /\ \E order \in Perms(DOMAIN store) :
                  rByDomain' =
                     [d \in {store[h].Domain : h \in DOMAIN store} |->
                        SelectSeq([i \in DOMAIN order |-> store[order[i]]],
                                  LAMBDA e : e.Domain = d)]
            /\ IF cfgHostIP # ""
               THEN rHostIP' = cfgHostIP /\ rpc' = "login" /\ rret' = "none"
               ELSE \E r \in HostIPResults :
                      IF r = "error"
                      THEN rHostIP' = "" /\ rpc' = "done" /\ rret' = "errHostIP"
                      ELSE rHostIP' = r /\ rpc' = "login" /\ rret' = "none"
    /\ UNCHANGED <<clientVars, policyVars, fileVars, sideVars, cfgVars, wkVars, histVars, knownHosts, mu,
                   cancelled, remote, updateReq, store, crashed>>

\* m.client.Login() (manager.go:180-185)
R_Login ==
    /\ ~crashed
    /\ rpc = "login"
    /\ rOpLog' = Append(rOpLog, "Login")
    /\ \E ok \in BOOLEAN :
          IF ok THEN rpc' = "zone" /\ UNCHANGED rret
          ELSE rpc' = RecExit(FALSE) /\ rret' = "errLogin"
    /\ UNCHANGED <<clientVars, policyVars, fileVars, sideVars, cfgVars, wkVars, histVars, knownHosts, mu,
                   cancelled, remote, updateReq, store, crashed, rHostIP, rByDomain,
                   rDomain, rQueue, rExisting, rRecords, rCount, rPending, recRuns,
                   rDecision, rWritten>>

\* the next domain of the range over recordsByDomain, and
\* session.InfoDnsRecords(domain) (manager.go:195-210); after the last
\* domain the function returns nil
R_Zone ==
    /\ ~crashed
    /\ rpc = "zone"
    /\ IF DOMAIN rByDomain = {}
       THEN /\ rpc' = RecExit(TRUE) /\ rret' = "nil"
            /\ UNCHANGED <<rOpLog, rByDomain, rDomain, rQueue, rExisting, rRecords, rCount>>
       ELSE \E d \in DOMAIN rByDomain :
              /\ rOpLog' = Append(rOpLog, "InfoDnsRecords")
              /\ rByDomain' = [x \in DOMAIN rByDomain \ {d} |-> rByDomain[x]]
              /\ rDomain' = d
              /\ UNCHANGED rret
              /\ \E ok \in BOOLEAN :
                    IF ok
                    THEN /\ rRecords' = remote[d]
                         /\ rExisting' = existingMap(remote[d])
                         /\ rQueue' = rByDomain[d]
                         /\ rpc' = "entry"
                         /\ UNCHANGED rCount
                    ELSE /\ rCount' = [rCount EXCEPT
                                          !.errors = @ + Len(rByDomain[d])]
                         /\ rpc' = RecAfterError("zone")
                         /\ UNCHANGED <<rExisting, rRecords, rQueue>>
    /\ UNCHANGED <<clientVars, policyVars, fileVars, sideVars, cfgVars, wkVars, histVars, knownHosts, mu,
                   cancelled, remote, updateReq, store, crashed, rHostIP, rPending, recRuns,
                   rDecision, rWritten>>

\* one iteration of the loop over domainRecords up to the decision
\* (manager.go:213-247)
R_Entry ==
    /\ ~crashed
    /\ rpc = "entry"
    /\ IF rQueue = <<>>
       THEN rpc' = "zone" /\ UNCHANGED <<rret, rPending, rDecision>>
       ELSE IF ctxDone(cancelled)
       THEN rpc' = RecExit(TRUE) /\ rret' = "ctxErr" /\ UNCHANGED <<rPending, rDecision>>
       ELSE LET d == ReconcileClassify(rExisting, Head(rQueue).Subdomain,
                                       expectedIP(Head(rQueue), rHostIP))
                h == Head(rQueue).Hostname
            IN  /\ rDecision' = [x \in DOMAIN rDecision \cup {h} |->
                                    IF x = h THEN d ELSE rDecision[x]]
                /\ IF d = "insync" \/ DryRunSkips(dryRun)
                   THEN rpc' = "mark" /\ rPending' = "skipped" /\ UNCHANGED rret
                   ELSE rpc' = "upsert" /\ UNCHANGED <<rret, rPending>>
    /\ UNCHANGED <<clientVars, policyVars, fileVars, sideVars, cfgVars, wkVars, histVars, knownHosts, mu,
                   cancelled, remote, updateReq, store, crashed, rHostIP, rByDomain,
                   rDomain, rQueue, rExisting, rRecords, rCount, rOpLog, recRuns,
                   rWritten>>

\* session.UpdateDnsRecords(domain, &recordSet) (manager.go:251-265)
R_Upsert ==
    /\ ~crashed
    /\ rpc = "upsert"
    /\ rOpLog' = Append(rOpLog, "UpdateDnsRecords")
    /\ updateReq' = [zone |-> rDomain,
                     set |-> recordSet(Head(rQueue).Subdomain,
                                       expectedIP(Head(rQueue), rHostIP))]
    /\ \E ok \in BOOLEAN :
          IF ok
          THEN /\ remote' = [remote EXCEPT ![rDomain] =
                               ApplyUpdate(@, recordSet(Head(rQueue).Subdomain,
                                   expectedIP(Head(rQueue), rHostIP)))]
               /\ rWritten' = rWritten \cup {Head(rQueue).Hostname}
               /\ rpc' = "persist"
               /\ UNCHANGED <<rCount, rQueue>>
          ELSE /\ rCount' = [rCount EXCEPT !.errors = @ + 1]
               /\ rQueue' = Tail(rQueue)
               /\ rpc' = RecAfterError("entry")
               /\ UNCHANGED <<remote, rWritten>>
    /\ UNCHANGED <<clientVars, policyVars, fileVars, sideVars, cfgVars, wkVars, histVars, knownHosts, mu,
                   cancelled, store, crashed, rHostIP, rByDomain, rDomain,
                   rExisting, rRecords, rPending, rret, recRuns,
                   rDecision>>

\* m.stateManager.UpdateRecord(...) (manager.go:267-270); its error is only
\* logged, and the entry is in the map either way (state.go:118)
R_Persist ==
    /\ ~crashed
    /\ rpc = "persist"
    /\ LET e == Head(rQueue)
       IN  store' = UpdateRecord(store, e.Hostname, e.Domain, e.Subdomain,
                                 expectedIP(e, rHostIP), "A")
    /\ rPending' = "synced"
    /\ rpc' = "mark"
    /\ UNCHANGED <<clientVars, policyVars, fileVars, sideVars, cfgVars, wkVars, histVars, knownHosts, mu,
                   cancelled, remote, updateReq, crashed, rHostIP, rByDomain, rDomain,
                   rQueue, rExisting, rRecords, rCount, rret, rOpLog, recRuns,
                   rDecision, rWritten>>

\* m.knownHosts[record.Hostname] = true and the counter
\* (manager.go:227-229, 238-240, 272-273)
R_Mark ==
    /\ ~crashed
    /\ rpc = "mark"
    /\ knownHosts' = knownHosts \cup {Head(rQueue).Hostname}
    /\ rCount' = IF rPending = "synced"
                 THEN [rCount EXCEPT !.synced = @ + 1]
                 ELSE [rCount EXCEPT !.skipped = @ + 1]
    /\ rPending' = "none"
    /\ rQueue' = Tail(rQueue)
    /\ rpc' = "entry"
    /\ UNCHANGED <<clientVars, policyVars, fileVars, sideVars, cfgVars, wkVars, histVars, mu, cancelled, remote, updateReq,
                   store, crashed, rHostIP, rByDomain, rDomain, rExisting, rRecords, rret,
                   rOpLog, recRuns,
                   rDecision, rWritten>>

\* the deferred session.Logout() (manager.go:185) and the return
R_Logout ==
    /\ ~crashed
    /\ rpc = "logout"
    /\ rOpLog' = Append(rOpLog, "Logout")
    /\ rpc' = "done"
    /\ UNCHANGED <<clientVars, policyVars, fileVars, sideVars, cfgVars, wkVars, histVars, knownHosts, mu,
                   cancelled, remote, updateReq, store, crashed, rHostIP, rByDomain,
                   rDomain, rQueue, rExisting, rRecords, rCount, rPending, rret, recRuns,
                   rDecision, rWritten>>

\* cancel() of the context (main.go:55-65)
Cancel ==
    /\ ~crashed
    /\ ~cancelled
    /\ rpc # "done"
    /\ cancelled' = TRUE
    /\ UNCHANGED <<clientVars, policyVars, fileVars, sideVars, cfgVars, wkVars, recVars, histVars, knownHosts,
                   mu, remote, updateReq, store, crashed>>

\* ReconcileFromState writes knownHosts without Manager.mu: when a worker is
\* about to read or write the map at the same time the accesses race, and
\* the Go runtime may abort the process ("concurrent map writes"); otherwise
\* the two accesses happen in either order
MapRace ==
    /\ ~crashed
    /\ rpc = "mark"
    /\ \E w \in Workers : pc[w] \in {"check", "mark"}
    /\ crashed' = TRUE
    /\ UNCHANGED <<clientVars, policyVars, fileVars, sideVars, cfgVars, wkVars, recVars, histVars, knownHosts,
                   mu, cancelled, remote, updateReq, store>>

(***************************************************************************)
(* state.Manager (state.go) over its state file.  A file content is        *)
(* [kind, records]: no file, a file that cannot be read, bytes that are    *)
(* not a JSON document of a State (among them a document cut short), a     *)
(* document whose "records" is null or missing, or the document            *)
(* json.MarshalIndent writes for a State.                                  *)
(***************************************************************************)
IPs == {"ip1", "ip2"}

Absent == [kind |-> "absent", records |-> EmptyMap]
Unreadable == [kind |-> "unreadable", records |-> EmptyMap]
Garbage == [kind |-> "garbage", records |-> EmptyMap]
Partial == [kind |-> "partial", records |-> EmptyMap]
NullRecords == [kind |-> "null", records |-> EmptyMap]

\* a serialisation that leaves the address out
MarshalNoIP(st) ==
    [kind |-> "json",
     records |-> [h \in DOMAIN st |->
                    [hostname |-> st[h].Hostname, domain |-> st[h].Domain,
                     subdomain |-> st[h].Subdomain, ip |-> "",
                     record_type |-> st[h].RecordType]]]

\* json.MarshalIndent(m.state, "", "  ") (state.go:86): the records under
\* their keys, each field under its json tag (state.go:14-21)
Marshal(st) ==
    [kind |-> "json",
     records |-> [h \in DOMAIN st |->
                    [hostname |-> st[h].Hostname, domain |-> st[h].Domain,
                     subdomain |-> st[h].Subdomain, ip |-> st[h].IP,
                     record_type |-> st[h].RecordType]]]

\* json.Unmarshal(data, &state) (state.go:68-76): an error for bytes that
\* are no document; otherwise the records under their keys, and an empty map
\* for a null or missing "records"
Unmarshal(data) ==
    IF data.kind \in {"garbage", "partial"}
    THEN [err |-> "parse", records |-> EmptyMap]
    ELSE [err |-> NilErr,
          records |-> [h \in DOMAIN data.records |->
                         [Hostname |-> data.records[h].hostname,
                          Domain |-> data.records[h].domain,
                          Subdomain |-> data.records[h].subdomain,
                          IP |-> data.records[h].ip,
                          RecordType |-> data.records[h].record_type]]]

\* Manager.load (state.go:62-81): the error and the records m.state holds
\* afterwards; on an error m.state is left as NewManager made it
load(f) ==
    IF f.kind = "absent" THEN [err |-> "notExist", records |-> EmptyMap]
    ELSE IF f.kind = "unreadable" THEN [err |-> "read", records |-> EmptyMap]
    ELSE Unmarshal(f)

\* a constructor that passes the error of load on
ctorErrStrict(mkdirErr, lerr) == IF mkdirErr # NilErr THEN mkdirErr ELSE lerr

\* state.NewManager (state.go:46-59): only the error of MkdirAll is
\* returned, the error of load is logged or ignored
ctorErr(mkdirErr, lerr) == mkdirErr

\* state.Manager.RemoveRecord on the in-memory map (state.go:132)
RemoveRecord(st, h) == [x \in DOMAIN st \ {h} |-> st[x]]

\* state.Manager.RecordCount (state.go:192-197)
RecordCount(st) == Cardinality(DOMAIN st)

\* no call since state.NewManager, and no call running
NoOp == [op |-> "none", h |-> <<>>, ip |-> ""]
DoneOp == [op |-> "done", h |-> <<>>, ip |-> ""]

\* what a call that returned nil adds to the reference map
ApplyRef(m, o) ==
    IF o.op = "update"
    THEN [x \in DOMAIN m \cup {o.h} |->
            IF x = o.h
            THEN [Hostname |-> o.h, Domain |-> HostInfo(o.h).Domain,
                  Subdomain |-> HostInfo(o.h).Subdomain, IP |-> o.ip,
                  RecordType |-> "A"]
            ELSE m[x]]
    ELSE [x \in DOMAIN m \ {o.h} |-> m[x]]

\* a save that leaves the temp file behind when the rename fails
removeTempKeeps(t) == t

\* os.Remove(tempFile) after a failed rename (state.go:98)
removeTemp(t) == Absent

\* no call has failed
NoPending == [op |-> "none", h |-> <<>>, ip |-> "", saved |-> FALSE]

\* the call o has returned an error
Failed(o) == [op |-> o.op, h |-> o.h, ip |-> o.ip, saved |-> FALSE]

\* a call for hostname h begins: a failed call for h, and one that a save
\* has followed, are forgotten
Forget(pd, h) == IF pd.h = h \/ pd.saved THEN NoPending ELSE pd

\* an UpdateRecord that takes the new entry out again when save fails
keepOnErrorDrops(st, h) == [x \in DOMAIN st \ {h} |-> st[x]]

\* the map after save() returned an error to UpdateRecord or RemoveRecord
\* for hostname h (state.go:118-123, 132-137): as the call changed it
keepOnError(st, h) == st

\* state.Manager.GetRecord (state.go:142-148)
GetRecord(st, h) ==
    IF h \in DOMAIN st THEN [rec |-> st[h], ok |-> TRUE]
    ELSE [rec |-> Entry(<<>>, <<>>, <<>>, "", ""), ok |-> FALSE]

mgrRest == <<dryRun, cfgHostIP, knownHosts, mu, cancelled, remote, updateReq,
             crashed, wkVars, recVars, histVars>>

\* state.NewManager(filePath) (state.go:37-60) in a new process
S_NewManager ==
    /\ spc = "down"
    /\ \E mkdirOk \in {ok \in BOOLEAN : ok \/ file.kind = "absent"} :
          IF mkdirOk
          THEN /\ store' = load(file).records
               /\ hasStore' = TRUE
               /\ loadErr' = load(file).err
               /\ sRet' = ctorErr(NilErr, load(file).err)
               /\ spc' = "idle"
               /\ ref' = IF clean THEN ref ELSE load(file).records
               /\ clean' = TRUE
          ELSE /\ sRet' = ctorErr("mkdir", NilErr)
               /\ UNCHANGED <<store, hasStore, loadErr, spc, ref, clean>>
    /\ sOp' = NoOp
    /\ UNCHANGED <<clientVars, policyVars, sideVars, mgrRest, file, tmp, sData,
                   pending>>

\* UpdateRecord up to the serialisation in save() (state.go:105-118, 84-89)
S_UpdateRecord ==
    /\ spc = "idle"
    /\ \E h \in Hosts, ip \in IPs :
          /\ store' = UpdateRecord(store, h, HostInfo(h).Domain,
                                   HostInfo(h).Subdomain, ip, "A")
          /\ sOp' = [op |-> "update", h |-> h, ip |-> ip]
          /\ pending' = Forget(pending, h)
    /\ sData' = Marshal(store')
    /\ spc' = "write"
    /\ UNCHANGED <<clientVars, policyVars, sideVars, mgrRest, hasStore, file, tmp, sRet,
                   loadErr, ref, clean>>

\* RemoveRecord up to the serialisation in save() (state.go:128-132, 84-89)
S_RemoveRecord ==
    /\ spc = "idle"
    /\ \E h \in Hosts :
          /\ store' = RemoveRecord(store, h)
          /\ sOp' = [op |-> "remove", h |-> h, ip |-> ""]
          /\ pending' = Forget(pending, h)
    /\ sData' = Marshal(store')
    /\ spc' = "write"
    /\ UNCHANGED <<clientVars, policyVars, sideVars, mgrRest, hasStore, file, tmp, sRet,
                   loadErr, ref, clean>>

\* os.WriteFile(tempFile, data, 0644) (state.go:92-95); a failed write
\* leaves the temp file as it was or cut short, and the call returns
S_WriteFile ==
    /\ spc = "write"
    /\ \E ok \in BOOLEAN :
          IF ok
          THEN /\ tmp' = sData
               /\ spc' = "rename"
               /\ UNCHANGED <<sRet, clean, ref, sOp, pending, store>>
          ELSE /\ tmp' \in {tmp, Partial}
               /\ sRet' = "errWrite"
               /\ clean' = FALSE /\ ref' = EmptyMap
               /\ store' = keepOnError(store, sOp.h)
               /\ pending' = Failed(sOp)
               /\ sOp' = DoneOp
               /\ spc' = "idle"
    /\ UNCHANGED <<clientVars, policyVars, sideVars, mgrRest, hasStore, file, sData,
                   loadErr>>

\* os.Rename(tempFile, m.filePath), os.Remove(tempFile) when it fails, and
\* the return of the call (state.go:97-102, 120-125)
S_Rename ==
    /\ spc = "rename"
    /\ \E ok \in BOOLEAN :
          IF ok
          THEN /\ file' = tmp
               /\ sRet' = NilErr
               /\ ref' = IF clean THEN ApplyRef(ref, sOp) ELSE ref
               /\ UNCHANGED <<clean, store>>
               /\ tmp' = Absent
               /\ pending' = IF pending.op = "none" THEN pending
                             ELSE [pending EXCEPT !.saved = TRUE]
          ELSE /\ sRet' = "errRename"
               /\ clean' = FALSE /\ ref' = EmptyMap
               /\ UNCHANGED file
               /\ tmp' = removeTemp(tmp)
               /\ store' = keepOnError(store, sOp.h)
               /\ pending' = Failed(sOp)
    /\ sOp' = DoneOp
    /\ spc' = "idle"
    /\ UNCHANGED <<clientVars, policyVars, sideVars, mgrRest, hasStore, sData,
                   loadErr>>

\* the process ends, at any point of a call; a write it was in the middle
\* of may have left the temp file cut short
S_Crash ==
    /\ spc # "down"
    /\ spc' = "down"
    /\ hasStore' = FALSE
    /\ store' = EmptyMap
    /\ tmp' \in IF spc = "write" THEN {tmp, Partial} ELSE {tmp}
    /\ clean' = (clean /\ spc = "idle")
    /\ ref' = IF clean /\ spc = "idle" THEN ref ELSE EmptyMap
    /\ sRet' = "none" /\ loadErr' = "none"
    /\ sOp' = NoOp /\ sData' = Absent
    /\ pending' = NoPending
    /\ UNCHANGED <<clientVars, policyVars, sideVars, mgrRest, file>>

\* the entry of doPostWithRetry is not observed
ExecQuiet ==
    /\ track = FALSE
    /\ opStart = [c \in Callers |-> [cb |-> NewCircuitBreaker, t |-> 0]]

\* no splitHostname call is followed, and the service may fail
SideQuiet ==
    /\ hostname = <<>> /\ domain = <<>> /\ subdomain = <<>> /\ hpc = "in"
    /\ healthy = FALSE
    /\ ExecQuiet

\* the state file followed only in SpecStore
FileQuiet ==
    /\ file = Absent /\ tmp = Absent
    /\ spc = "idle" /\ sData = Absent /\ sOp = NoOp
    /\ sRet = "none" /\ loadErr = "none"
    /\ ref = EmptyMap /\ clean = TRUE
    /\ pending = NoPending

(***************************************************************************)
(* Initial states                                                          *)
(***************************************************************************)
COM == <<"example", "com">>
ORG == <<"example", "org">>

\* records the DNS service may hold when the process starts
InitRemotes ==
    {[z \in Zones |-> <<>>],
     [z \in Zones |-> IF z = COM THEN <<Rec(<<"app">>, "A", "ip1")>>
                      ELSE <<Rec(<<"@">>, "A", "ip1")>>],
     [z \in Zones |-> IF z = COM THEN <<Rec(<<"app">>, "A", "ip2"),
                                        Rec(<<"app">>, "A", "ip1")>>
                      ELSE <<>>],
     [z \in Zones |-> IF z = COM THEN <<Rec(<<"app">>, "AAAA", "ip1"),
                                        Rec(<<"www">>, "A", "ip2")>>
                      ELSE <<Rec(<<"@">>, "A", "ip2")>>]}

StoredEntry(h, ip) == Entry(h, HostInfo(h).Domain, HostInfo(h).Subdomain, ip, "A")

\* maps state.Manager may load from the state file (state.go:62-81)
InitStores ==
    {EmptyMap,
     [h \in {<<"app", "example", "com">>} |-> StoredEntry(h, "ip2")],
     [h \in Hosts |-> StoredEntry(h, "ip1")]}

MgrQuiet ==
    /\ knownHosts = {}
    /\ mu = NoOne
    /\ pc = [w \in Workers |-> "idle"]
    /\ info = [w \in Workers |-> NoInfo]
    /\ hostIP = [w \in Workers |-> ""]
    /\ recordExists = [w \in Workers |-> FALSE]
    /\ ret = [w \in Workers |-> "none"]
    /\ rpc = "idle" /\ rHostIP = "" /\ rByDomain = EmptyMap /\ rDomain = <<>>
    /\ rQueue = <<>> /\ rExisting = EmptyMap /\ rCount = ZeroCount
    /\ rRecords = <<>>
    /\ rPending = "none" /\ rret = "none"
    /\ cancelled = FALSE /\ crashed = FALSE
    /\ updateReq = NoReq
    /\ calls = 0 /\ recRuns = 0
    /\ opLog = [w \in Workers |-> <<>>]
    /\ rOpLog = <<>>
    /\ storeLog = [w \in Workers |-> 0]
    /\ persistFailed = [w \in Workers |-> FALSE]
    /\ decided = [w \in Workers |-> "none"]
    /\ phiUpserts = [h \in Hosts |-> 0]
    /\ phiUpsertsOk = [h \in Hosts |-> 0]
    /\ phiOk = {} /\ phiDone = {}
    /\ rDecision = EmptyMap
    /\ rWritten = {}

ClientQuiet ==
    /\ cb = NewCircuitBreaker
    /\ threshold = 5 /\ timeout = 60 /\ halfOpenMaxReqs = 3 /\ maxRetries = 3
    /\ now = 0
    /\ cpc = [c \in Callers |-> "idle"]
    /\ attempt = [c \in Callers |-> 0]
    /\ lastErr = [c \in Callers |-> NilErr]
    /\ callErr = [c \in Callers |-> NilErr]
    /\ result = [c \in Callers |-> NoResult]
    /\ respBuf = [c \in Callers |-> NoBuf]
    /\ transportCalls = [c \in Callers |-> 0]
    /\ sleeps = [c \in Callers |-> 0]
    /\ onlyRetryable = [c \in Callers |-> TRUE]
    /\ probesAdmitted = 0
    /\ failRun = 0

\* the state after dns.NewManager (manager.go:26-37) and state.NewManager
InitManager ==
    /\ ClientQuiet
    /\ MgrQuiet
    /\ PolicyQuiet
    /\ FileQuiet
    /\ SideQuiet
    /\ dryRun \in BOOLEAN
    /\ cfgHostIP \in {"", "ip1"}
    /\ hasStore \in BOOLEAN
    /\ remote \in InitRemotes
    /\ store \in IF hasStore THEN InitStores ELSE {EmptyMap}

ProcessStep ==
    \/ \E w \in Workers : PHI_Start(w)
    \/ \E w \in Workers : PHI_Lock(w)
    \/ \E w \in Workers : PHI_Check(w)
    \/ \E w \in Workers : PHI_Login(w)
    \/ \E w \in Workers : PHI_Zone(w)
    \/ \E w \in Workers : PHI_Records(w)
    \/ \E w \in Workers : PHI_Upsert(w)
    \/ \E w \in Workers : PHI_Mark(w)
    \/ \E w \in Workers : PHI_Persist(w)
    \/ \E w \in Workers : PHI_Logout(w)
    \/ \E w \in Workers : PHI_Unlock(w)

\* workers calling ProcessHostInfo
InitProcess == InitManager /\ callLimit = MaxCalls

NextProcess == ProcessStep

SpecProcess == InitProcess /\ [][NextProcess]_vars

\* a ReconcileFromState run next to workers calling ProcessHostInfo
InitReconcile == InitManager /\ callLimit = MaxCallsRec

NextReconcile ==
    \/ \E w \in Workers : PHI_Start(w)
    \/ \E w \in Workers : PHI_Lock(w)
    \/ \E w \in Workers : PHI_Check(w)
    \/ \E w \in Workers : PHI_Login(w)
    \/ \E w \in Workers : PHI_Zone(w)
    \/ \E w \in Workers : PHI_Records(w)
    \/ \E w \in Workers : PHI_Upsert(w)
    \/ \E w \in Workers : PHI_Mark(w)
    \/ \E w \in Workers : PHI_Persist(w)
    \/ \E w \in Workers : PHI_Logout(w)
    \/ \E w \in Workers : PHI_Unlock(w)
    \/ R_Start
    \/ R_Login
    \/ R_Zone
    \/ R_Entry
    \/ R_Upsert
    \/ R_Persist
    \/ R_Mark
    \/ R_Logout
    \/ Cancel
    \/ MapRace

SpecReconcile == InitReconcile /\ [][NextReconcile]_vars

InitClient ==
    /\ cb = NewCircuitBreaker
    /\ threshold \in 1..MaxThreshold
    /\ timeout \in 1..MaxTimeout
    /\ halfOpenMaxReqs \in 1..MaxHalfOpen
    /\ maxRetries \in 0..MaxRetriesBound
    /\ now = 0
    /\ cpc = [c \in Callers |-> "idle"]
    /\ attempt = [c \in Callers |-> 0]
    /\ lastErr = [c \in Callers |-> NilErr]
    /\ callErr = [c \in Callers |-> NilErr]
    /\ result = [c \in Callers |-> NoResult]
    /\ respBuf = [c \in Callers |-> NoBuf]
    /\ transportCalls = [c \in Callers |-> 0]
    /\ sleeps = [c \in Callers |-> 0]
    /\ onlyRetryable = [c \in Callers |-> TRUE]
    /\ probesAdmitted = 0
    /\ failRun = 0
    /\ MgrQuiet
    /\ PolicyQuiet
    /\ FileQuiet
    /\ SideQuiet
    /\ callLimit = 0
    /\ dryRun = FALSE /\ cfgHostIP = "" /\ hasStore = FALSE
    /\ remote = [z \in Zones |-> <<>>] /\ store = EmptyMap

NextClient ==
    \/ \E c \in Callers : StartOp(c)
    \/ \E c \in Callers : CallEnter(c)
    \/ \E c \in Callers : doPost(c)
    \/ \E c \in Callers : CallExit(c)
    \/ \E c \in Callers : RetryCheck(c)
    \/ \E c \in Callers : Sleep(c)
    \/ Tick

SpecClient == InitClient /\ [][NextClient]_vars

\* the process before config.Load and before any client exists
\* the service recovers: from now on every doPost gets a response
Heal ==
    /\ ~healthy
    /\ healthy' = TRUE
    /\ UNCHANGED <<clientVars, mgrVars, policyVars, fileVars, splitVars, execVars>>

\* the next step of caller c, whichever it is
CallerStep(c) ==
    \/ StartOp(c)
    \/ CallEnter(c)
    \/ doPost(c)
    \/ CallExit(c)
    \/ RetryCheck(c)
    \/ Sleep(c)

\* as InitClient, with a breaker that opens at the first failure (neither
\* the gate nor onSuccess reads the threshold) and a retry loop of at most
\* two attempts
InitRecover ==
    /\ cb = NewCircuitBreaker
    /\ threshold = 1
    /\ timeout \in 1..MaxTimeout
    /\ halfOpenMaxReqs \in 1..MaxHalfOpen
    /\ maxRetries = 1
    /\ now = 0
    /\ cpc = [c \in Callers |-> "idle"]
    /\ attempt = [c \in Callers |-> 0]
    /\ lastErr = [c \in Callers |-> NilErr]
    /\ callErr = [c \in Callers |-> NilErr]
    /\ result = [c \in Callers |-> NoResult]
    /\ respBuf = [c \in Callers |-> NoBuf]
    /\ transportCalls = [c \in Callers |-> 0]
    /\ sleeps = [c \in Callers |-> 0]
    /\ onlyRetryable = [c \in Callers |-> TRUE]
    /\ probesAdmitted = 0
    /\ failRun = 0
    /\ MgrQuiet
    /\ PolicyQuiet
    /\ FileQuiet
    /\ SideQuiet
    /\ callLimit = 0
    /\ dryRun = FALSE /\ cfgHostIP = "" /\ hasStore = FALSE
    /\ remote = [z \in Zones |-> <<>>] /\ store = EmptyMap

NextRecover ==
    \/ \E c \in Callers : CallerStep(c)
    \/ Tick
    \/ Heal

\* callers keep calling and every goroutine keeps being scheduled
SpecRecover ==
    /\ InitRecover
    /\ [][NextRecover]_vars
    /\ \A c \in Callers : WF_vars(CallerStep(c))

\* one caller running one doPostWithRetry after the other, the breaker and
\* the clock at each entry being kept
InitExecute ==
    /\ cb = NewCircuitBreaker
    /\ threshold \in 1..MaxThreshold
    /\ timeout \in 1..MaxTimeout
    /\ halfOpenMaxReqs \in 1..MaxHalfOpen
    /\ maxRetries \in 0..MaxRetriesBound
    /\ now = 0
    /\ cpc = [c \in Callers |-> "idle"]
    /\ attempt = [c \in Callers |-> 0]
    /\ lastErr = [c \in Callers |-> NilErr]
    /\ callErr = [c \in Callers |-> NilErr]
    /\ result = [c \in Callers |-> NoResult]
    /\ respBuf = [c \in Callers |-> NoBuf]
    /\ transportCalls = [c \in Callers |-> 0]
    /\ sleeps = [c \in Callers |-> 0]
    /\ onlyRetryable = [c \in Callers |-> TRUE]
    /\ probesAdmitted = 0
    /\ failRun = 0
    /\ MgrQuiet
    /\ PolicyQuiet
    /\ FileQuiet
    /\ hostname = <<>> /\ domain = <<>> /\ subdomain = <<>> /\ hpc = "in"
    /\ healthy = FALSE
    /\ track = TRUE
    /\ opStart = [c \in Callers |-> [cb |-> NewCircuitBreaker, t |-> 0]]
    /\ callLimit = 0
    /\ dryRun = FALSE /\ cfgHostIP = "" /\ hasStore = FALSE
    /\ remote = [z \in Zones |-> <<>>] /\ store = EmptyMap

NextExecute ==
    \/ CallerStep("c1")
    \/ Tick

SpecExecute == InitExecute /\ [][NextExecute]_vars

InitPolicy ==
    /\ boot = "start"
    /\ cfg = NoCfg
    /\ retryBackoff = [InitialBackoff |-> 0, MaxBackoff |-> 0,
                       BackoffMultiplier |-> 0]
    /\ lastSleep = NoSleep
    /\ cb = NewCircuitBreaker
    /\ threshold = 0 /\ timeout = 0 /\ halfOpenMaxReqs = 0 /\ maxRetries = 0
    /\ now = 0
    /\ cpc = [c \in Callers |-> "idle"]
    /\ attempt = [c \in Callers |-> 0]
    /\ lastErr = [c \in Callers |-> NilErr]
    /\ callErr = [c \in Callers |-> NilErr]
    /\ result = [c \in Callers |-> NoResult]
    /\ respBuf = [c \in Callers |-> NoBuf]
    /\ transportCalls = [c \in Callers |-> 0]
    /\ sleeps = [c \in Callers |-> 0]
    /\ onlyRetryable = [c \in Callers |-> TRUE]
    /\ probesAdmitted = 0
    /\ failRun = 0
    /\ MgrQuiet
    /\ FileQuiet
    /\ SideQuiet
    /\ callLimit = 0
    /\ dryRun = FALSE /\ cfgHostIP = "" /\ hasStore = FALSE
    /\ remote = [z \in Zones |-> <<>>] /\ store = EmptyMap

NextPolicy ==
    \/ Load
    \/ NewManager
    \/ NewNetcupDnsClientWithOptions
    \/ Backoff

SpecPolicy == InitPolicy /\ [][NextPolicy]_vars

\* before state.NewManager; the state file the process will find is
\* missing, cannot be read, is no JSON document, has no records, or is one
\* an earlier process saved
InitStore ==
    /\ ClientQuiet
    /\ MgrQuiet
    /\ PolicyQuiet
    /\ SideQuiet
    /\ callLimit = 0
    /\ dryRun = FALSE /\ cfgHostIP = "" /\ hasStore = FALSE
    /\ remote = [z \in Zones |-> <<>>] /\ store = EmptyMap
    /\ \/ file \in {Absent, Unreadable, Garbage, NullRecords} /\ ref = EmptyMap
       \/ \E m \in InitStores : file = Marshal(m) /\ ref = m
    /\ tmp \in {Absent, Partial}
    /\ spc = "down" /\ sData = Absent /\ sOp = NoOp
    /\ sRet = "none" /\ loadErr = "none"
    /\ clean = TRUE
    /\ pending = NoPending

\* one call of splitHostname for every string over Chars
InitSplit ==
    /\ ClientQuiet
    /\ MgrQuiet
    /\ PolicyQuiet
    /\ FileQuiet
    /\ callLimit = 0
    /\ dryRun = FALSE /\ cfgHostIP = "" /\ hasStore = FALSE
    /\ remote = [z \in Zones |-> <<>>] /\ store = EmptyMap
    /\ hostname \in Strings(MaxHostLen)
    /\ domain = <<>> /\ subdomain = <<>> /\ hpc = "in"
    /\ healthy = FALSE
    /\ ExecQuiet

NextSplit == SplitHostname

SpecSplit == InitSplit /\ [][NextSplit]_vars

NextStore ==
    \/ S_NewManager
    \/ S_UpdateRecord
    \/ S_RemoveRecord
    \/ S_WriteFile
    \/ S_Rename
    \/ S_Crash

SpecStore == InitStore /\ [][NextStore]_vars

(***************************************************************************)
(* Claims about the circuit breaker and the retry loop (SpecClient)        *)
(***************************************************************************)

\* C5: while the breaker is closed every call is passed to the transport;
\* a failure adds one to the failure counter and the breaker opens, recording
\* the time of the failure, exactly when the counter reaches the threshold
\* (that is, after threshold failures in a row); a success sets the failure
\* counter to zero and leaves the breaker closed.
C5_ClosedState ==
    [][\A c \in Callers :
        /\ (cpc[c] = "call" /\ cpc'[c] # "call" /\ cb.state = StateClosed)
              => (cpc'[c] = "fn" /\ cb' = cb)
        /\ (cpc[c] = "exit" /\ cpc'[c] # "exit" /\ cb.state = StateClosed)
              => IF lastErr[c] # SuccessMarker
                 THEN /\ cb'.failureCount = cb.failureCount + 1
                      /\ (cb'.state = StateOpen) <=> (cb'.failureCount = threshold)
                      /\ cb'.state = StateOpen =>
                            (cb'.lastFailureTime = now /\ failRun' = threshold)
                      /\ cb'.state \in {StateOpen, StateClosed}
                 ELSE cb'.failureCount = 0 /\ cb'.state = StateClosed
    ]_vars

\* the breaker opened after two failures in a row with threshold 2
C5_Witness ==
    cb.state = StateOpen /\ threshold = 2 /\ failRun = 2 /\ cb.failureCount = 2

\* C6: while the breaker is open, a call made before more than timeout has
\* passed since lastFailureTime returns ErrCircuitOpen, leaves the breaker
\* as it is and does not reach the transport; the first call made after that
\* moves the breaker to half-open with both counters zero and is let through.
C6_OpenState ==
    [][\A c \in Callers :
        (cpc[c] = "call" /\ cpc'[c] # "call" /\ cb.state = StateOpen)
          => IF now - cb.lastFailureTime > timeout
             THEN /\ cb'.state = StateHalfOpen
                  /\ cb'.failureCount = 0 /\ cb'.successCount = 0
                  /\ cpc'[c] = "fn"
             ELSE /\ cb' = cb
                  /\ cpc'[c] = "check" /\ callErr'[c] = ErrCircuitOpen
                  /\ transportCalls' = transportCalls
    ]_vars

\* one caller was turned away by the open breaker and, after the timeout,
\* another call moved the breaker to half-open
C6_Witness ==
    /\ cb.state = StateHalfOpen /\ probesAdmitted = 1
    /\ \E c \in Callers : cpc[c] = "done" /\ result[c].kind = "circuitOpen"

\* C7: while the breaker is half-open, a failure reopens it and zeroes the
\* success counter; a success that brings the success counter to
\* halfOpenMaxReqs closes it with both counters zero, any other success only
\* counts; no other step leaves half-open.
C7_HalfOpenState ==
    [][cb.state = StateHalfOpen =>
        IF \E c \in Callers : cpc[c] = "exit" /\ cpc'[c] # "exit"
        THEN \A c \in Callers : (cpc[c] = "exit" /\ cpc'[c] # "exit") =>
               IF lastErr[c] # SuccessMarker
               THEN cb'.state = StateOpen /\ cb'.successCount = 0
               ELSE IF cb.successCount + 1 = halfOpenMaxReqs
               THEN /\ cb'.state = StateClosed
                    /\ cb'.successCount = 0 /\ cb'.failureCount = 0
               ELSE /\ cb'.state = StateHalfOpen
                    /\ cb'.successCount = cb.successCount + 1
        ELSE cb'.state = StateHalfOpen
    ]_vars

\* a success was counted while half-open without closing the circuit
C7_Witness ==
    cb.state = StateHalfOpen /\ cb.successCount = 1 /\ halfOpenMaxReqs = 2

\* C8: while the breaker is half-open, at most halfOpenMaxReqs calls have been
\* let through to the transport since it became half-open.
C8_HalfOpenBudget ==
    cb.state = StateHalfOpen => probesAdmitted <= halfOpenMaxReqs

\* C9: doPostWithRetry calls the transport at most MaxRetries+1 times, makes
\* no attempt after a successful one and returns its response; when every
\* attempt ran and failed with a retryable error it has made MaxRetries+1
\* attempts and MaxRetries sleeps and returns the last error wrapped as
\* "max retries exceeded".
C9_RetryLoop ==
    \A c \in Callers :
        /\ transportCalls[c] <= maxRetries + 1
        /\ attempt[c] <= maxRetries
        /\ lastErr[c] = SuccessMarker =>
              /\ cpc[c] \in {"exit", "check", "done"}
              /\ transportCalls[c] = attempt[c] + 1
              /\ cpc[c] = "done" => result[c].kind = "ok"
        /\ (cpc[c] = "done" /\ onlyRetryable[c]) =>
              /\ transportCalls[c] = maxRetries + 1
              /\ sleeps[c] = maxRetries
              /\ lastErr[c] \in TransportErrs
              /\ result[c] = [kind |-> "maxRetries", cause |-> lastErr[c]]

\* three attempts, all failing with a retryable error, with MaxRetries = 2
C9_Witness ==
    \E c \in Callers :
        /\ cpc[c] = "done" /\ onlyRetryable[c] /\ maxRetries = 2
        /\ transportCalls[c] = 3 /\ sleeps[c] = 2
        /\ result[c].kind = "maxRetries"

\* C10: when Call returns ErrCircuitOpen, doPostWithRetry returns at once,
\* without a sleep, a further attempt or a transport call, and the error it
\* returns wraps the underlying error that tripped the circuit.
C10_CircuitOpenAbort ==
    \A c \in Callers :
        /\ callErr[c] = ErrCircuitOpen =>
              /\ cpc[c] \in {"check", "done"}
              /\ cpc[c] = "done" => result[c].kind = "circuitOpen"
        /\ (cpc[c] = "done" /\ result[c].kind = "circuitOpen") =>
              result[c].cause \in TransportErrs

\* C11: a doPostWithRetry whose last attempt ran and failed with an error
\* that is not retryable returns that error itself, whatever the attempt
\* index, and never the "max retries exceeded" or the circuit-open error.
C11_NonRetryableReported ==
    \A c \in Callers :
        (/\ cpc[c] = "done"
         /\ lastErr[c] \in TransportErrs /\ ~isRetryableError(lastErr[c])
         /\ callErr[c] # ErrCircuitOpen)
          => result[c] = [kind |-> "raw", cause |-> lastErr[c]]

\* the failures the taxonomy calls transport/transient: a network timeout,
\* a rate-limit response and HTTP 5xx statuses
TransientErrs == {"netTimeout", "http429", "http503", "http500"}

\* C12: every transport/transient failure is classified retryable, so a
\* doPostWithRetry never returns after an attempt that failed with one while
\* attempts remain.
C12_TransientRetried ==
    \A c \in Callers :
        (cpc[c] = "done" /\ lastErr[c] \in TransientErrs
         /\ callErr[c] # ErrCircuitOpen)
          => (isRetryableError(lastErr[c]) /\ attempt[c] = maxRetries)

\* C13: a response whose status is "error" ends the operation: the
\* exchange that returned it is the last transport call of the invocation
\* (the only one when it answers the first attempt), there is no sleep or
\* attempt after it, and the session operation returns the status error.
C13_StatusErrorNotRetried ==
    \A c \in Callers :
        respBuf[c] = "error" =>
            /\ cpc[c] \in {"exit", "check", "done"}
            /\ transportCalls[c] = attempt[c] + 1
            /\ sleeps[c] = attempt[c]
            /\ cpc[c] = "done" =>
                  /\ result[c].kind = "ok"
                  /\ SessionOpErr(result[c], respBuf[c]) = "statusError"

\* the first attempt was answered with status "error" and the operation has
\* returned after that single exchange
C13_Witness ==
    \E c \in Callers :
        /\ cpc[c] = "done" /\ respBuf[c] = "error"
        /\ attempt[c] = 0 /\ transportCalls[c] = 1 /\ maxRetries > 0

\* C14: the sleep after failed attempt n is
\* min(InitialBackoff * BackoffMultiplier^n, MaxBackoff), doubled for a
\* rate-limit failure; calculateBackoff never exceeds MaxBackoff, never
\* decreases from n to n+1 and stays at MaxBackoff once it has reached it.
C14_Backoff ==
    (boot \in {"manager", "client"} /\ lastSleep # NoSleep) =>
        LET rc == retryBackoff
            n == lastSleep.attempt
            ideal == Min2(rc.InitialBackoff * Pow(rc.BackoffMultiplier, n),
                          rc.MaxBackoff)
        IN  /\ lastSleep.backoff =
                  IF containsAny(lastSleep.err, {"rate limit", "429"})
                  THEN 2 * ideal ELSE ideal
            /\ calculateBackoff(rc, n) <= rc.MaxBackoff
            /\ calculateBackoff(rc, n + 1) >= calculateBackoff(rc, n)
            /\ calculateBackoff(rc, n) = rc.MaxBackoff =>
                  calculateBackoff(rc, n + 1) = rc.MaxBackoff

\* C15: the retry and breaker policy of the client dns.NewManager builds is
\* the configured one.
C15_ConfiguredPolicy ==
    boot = "manager" =>
        /\ maxRetries = cfg.MaxRetries
        /\ retryBackoff.InitialBackoff = cfg.InitialBackoff
        /\ retryBackoff.MaxBackoff = cfg.MaxBackoff
        /\ retryBackoff.BackoffMultiplier = cfg.BackoffMultiplier
        /\ threshold = cfg.CircuitBreakerThreshold
        /\ timeout = cfg.CircuitBreakerTimeout
        /\ halfOpenMaxReqs = cfg.CircuitBreakerHalfOpenReqs

\* NetcupSession.Logout (netcup.go:489-504): the request goes through
\* doPostWithRetry like every other one, the body is not looked at and the
\* error of doPostWithRetry is handed back
Logout(res) == IF res.kind = "ok" THEN NilErr ELSE res.kind

\* C17: a Logout reaches the transport at most once, and a Logout that
\* hands back an error has not slept for a retry.
C17_LogoutSingleAttempt ==
    \A c \in Callers :
        cpc[c] = "done" =>
            /\ transportCalls[c] <= 1
            /\ Logout(result[c]) # NilErr => sleeps[c] = 0

(***************************************************************************)
(* Claims about Manager.ProcessHostInfo and Manager.ReconcileFromState     *)
(***************************************************************************)
\* the worker is inside ProcessHostInfo, holding Manager.mu
InCall(w) == pc[w] \notin {"idle", "lock"}

\* C1 (as stated): over all ProcessHostInfo calls for one hostname there is
\* at most one UpdateDnsRecords call, and a call that follows another call
\* for the same hostname makes no remote call and no store update.
C1_Idempotent ==
    /\ \A h \in Hosts : phiUpserts[h] <= 1
    /\ \A w \in Workers :
          (InCall(w) /\ info[w].Hostname \in phiDone) =>
              (opLog[w] = <<>> /\ storeLog[w] = 0)

\* C1 (amended): over all ProcessHostInfo calls for one hostname, sequential
\* or concurrent, at most one UpdateDnsRecords call succeeds, and a call that
\* follows a call for the same hostname that returned nil makes no remote
\* call and no store update and returns nil.
C1_IdempotentAfterSuccess ==
    /\ \A h \in Hosts : phiUpsertsOk[h] <= 1
    /\ \A w \in Workers :
          (InCall(w) /\ info[w].Hostname \in phiOk) =>
              /\ opLog[w] = <<>> /\ storeLog[w] = 0
              /\ pc[w] \in {"check", "unlock"}
              /\ pc[w] = "unlock" => ret[w] = "nil"

\* a second call for a hostname whose first call wrote the record returns
\* nil without a remote call
C1_Witness ==
    \E w \in Workers :
        /\ pc[w] = "unlock" /\ ret[w] = "nil" /\ opLog[w] = <<>>
        /\ info[w].Hostname \in phiOk
        /\ phiUpsertsOk[info[w].Hostname] = 1

\* C2: a ProcessHostInfo call whose hostname is in knownHosts goes from the
\* known-hosts check straight to the return of nil: no session operation, no
\* store update, knownHosts, the store and the remote records unchanged.
C2_KnownHostNoOp ==
    [][\A w \in Workers :
        (pc[w] \in {"lock", "check"} /\ pc'[w] # pc[w]
         /\ info[w].Hostname \in knownHosts)
          => /\ pc'[w] \in {"check", "unlock"}
             /\ pc'[w] = "unlock" => ret'[w] = "nil"
             /\ opLog'[w] = <<>> /\ storeLog'[w] = 0
             /\ knownHosts' = knownHosts /\ store' = store /\ remote' = remote
    ]_vars

\* with dry-run off, a call found its hostname known and is about to return
C2_Witness ==
    \E w \in Workers :
        /\ ~dryRun /\ pc[w] = "unlock" /\ ret[w] = "nil" /\ opLog[w] = <<>>
        /\ info[w].Hostname \in knownHosts

\* C3: with dry-run on there is never an UpdateDnsRecords call, neither in
\* ProcessHostInfo nor in ReconcileFromState, and a hostname for which the
\* create/update decision was reached is marked known by the very next step
\* of the invocation.
C3_DryRun ==
    dryRun =>
        /\ \A h \in Hosts : phiUpserts[h] = 0
        /\ \A w \in Workers :
              /\ \A i \in DOMAIN opLog[w] : opLog[w][i] # "UpdateDnsRecords"
              /\ pc[w] \notin {"upsert", "persist"}
              /\ decided[w] \in {"create", "update"} =>
                    \/ pc[w] = "mark"
                    \/ /\ pc[w] \in {"logout", "unlock"}
                       /\ info[w].Hostname \in knownHosts
                       /\ ret[w] = "nil"
        /\ \A i \in DOMAIN rOpLog : rOpLog[i] # "UpdateDnsRecords"
        /\ rpc \notin {"upsert", "persist"}
        /\ rCount.synced = 0
        /\ \A h \in DOMAIN rDecision :
              \/ h \in knownHosts
              \/ rpc = "mark" /\ Head(rQueue).Hostname = h

\* in dry-run a ProcessHostInfo decided "create" and a ReconcileFromState
\* decided "update", and both hostnames are known
C3_Witness ==
    /\ dryRun
    /\ \E w \in Workers :
          /\ decided[w] = "create" /\ pc[w] = "unlock"
          /\ info[w].Hostname \in knownHosts
    /\ \E h \in DOMAIN rDecision : rDecision[h] = "update" /\ h \in knownHosts

\* C4: with dry-run on, ProcessHostInfo makes no call to the Netcup API at
\* all and returns nil with the hostname marked known whatever the API
\* would answer.
C4_DryRunNoApiCalls ==
    dryRun =>
        \A w \in Workers :
            /\ opLog[w] = <<>>
            /\ (pc[w] = "unlock" /\ ret[w] # "errHostIP") =>
                  (ret[w] = "nil" /\ info[w].Hostname \in knownHosts)

\* occurrences of x in the sequence q
Count(q, x) == Cardinality({i \in DOMAIN q : q[i] = x})

\* C16: when ProcessHostInfo or ReconcileFromState returns after a Login
\* that gave a session, Logout has been called exactly once and is the last
\* session operation; when Login failed the function returns its error
\* with Login as the only session operation and no Logout.
C16_ScopedLogout ==
    /\ \A w \in Workers :
          /\ Count(opLog[w], "Logout") <= 1
          /\ Count(opLog[w], "Logout") = 1 => pc[w] = "unlock"
          /\ pc[w] = "unlock" =>
                IF Count(opLog[w], "Login") = 1 /\ ret[w] # "errLogin"
                THEN /\ Count(opLog[w], "Logout") = 1
                     /\ opLog[w][Len(opLog[w])] = "Logout"
                ELSE /\ Count(opLog[w], "Logout") = 0
                     /\ ret[w] = "errLogin" => opLog[w] = <<"Login">>
    /\ Count(rOpLog, "Logout") <= 1
    /\ Count(rOpLog, "Logout") = 1 => rpc = "done"
    /\ rpc = "done" =>
          IF Count(rOpLog, "Login") = 1 /\ rret # "errLogin"
          THEN /\ Count(rOpLog, "Logout") = 1
               /\ rOpLog[Len(rOpLog)] = "Logout"
          ELSE /\ Count(rOpLog, "Logout") = 0
               /\ rret = "errLogin" => rOpLog = <<"Login">>

\* a cancelled ReconcileFromState and a ProcessHostInfo whose update failed
\* have both closed their session
C16_Witness ==
    /\ rpc = "done" /\ rret = "ctxErr" /\ rOpLog[Len(rOpLog)] = "Logout"
    /\ \E w \in Workers :
          /\ pc[w] = "unlock" /\ ret[w] = "errUpdate"
          /\ opLog[w][Len(opLog[w])] = "Logout"

\* the classification the statement gives for a record set
ExpectedCase(records, sub, ip) ==
    IF \E i \in MatchIdx(records, sub) : records[i].Destination = ip
    THEN "insync"
    ELSE IF MatchIdx(records, sub) # {} THEN "update" ELSE "create"

\* C18: ProcessHostInfo decides "in sync" when the record set holds an "A"
\* record of the label whose destination is the host address, and then
\* returns nil with the hostname known and without UpdateDnsRecords;
\* otherwise it decides "update" when an "A" record of the label exists and
\* "create" when none does.
C18_Classification ==
    \A w \in Workers :
        /\ (pc[w] = "upsert" \/ (pc[w] = "mark" /\ opLog[w][Len(opLog[w])] = "InfoDnsRecords"))
              => decided[w] = ExpectedCase(remote[info[w].Domain],
                                           info[w].Subdomain, hostIP[w])
        /\ (pc[w] = "unlock" /\ decided[w] = "insync")
              => /\ ret[w] = "nil" /\ info[w].Hostname \in knownHosts
                 /\ Count(opLog[w], "UpdateDnsRecords") = 0

\* C19: when UpdateDnsRecords fails ProcessHostInfo returns the error with
\* the hostname not in knownHosts and the store not updated; a hostname
\* whose updates have all failed is not known, and a later call for it is
\* not skipped: it goes on to Login unless the host address cannot be found.
C19_UpsertFailure ==
    /\ \A w \in Workers :
          ret[w] = "errUpdate" =>
              /\ pc[w] \in {"logout", "unlock"}
              /\ storeLog[w] = 0
              /\ info[w].Hostname \notin knownHosts
              /\ Count(opLog[w], "UpdateDnsRecords") = 1
    /\ \A h \in Hosts :
          (phiUpserts[h] >= 1 /\ phiUpsertsOk[h] = 0) =>
              /\ h \notin knownHosts
              /\ \A w \in Workers :
                    (info[w].Hostname = h /\ pc[w] = "unlock" /\ h \in phiDone)
                        => (opLog[w] = <<>> => ret[w] = "errHostIP")

\* after a failed update a second call for the hostname has gone through
\* Login, both queries and UpdateDnsRecords again
C19_Witness ==
    \E w \in Workers :
        /\ info[w].Hostname \in phiDone
        /\ phiUpserts[info[w].Hostname] = 2
        /\ phiUpsertsOk[info[w].Hostname] = 0
        /\ opLog[w] = <<"Login", "InfoDnsZone", "InfoDnsRecords", "UpdateDnsRecords">>

\* C20: once UpdateDnsRecords has succeeded ProcessHostInfo returns nil with
\* the hostname known, also when the store update fails; the store was
\* updated once with (hostname, domain, subdomain, host address, "A") when
\* there is a store, and no session operation other than Logout follows the
\* update.
C20_UpsertSuccess ==
    \A w \in Workers :
        (/\ pc[w] \in {"logout", "unlock"}
         /\ decided[w] \in {"create", "update"}
         /\ ~dryRun /\ ret[w] # "errUpdate")
          => /\ ret[w] = "nil"
             /\ info[w].Hostname \in knownHosts
             /\ Count(opLog[w], "UpdateDnsRecords") = 1
             /\ opLog[w][4] = "UpdateDnsRecords"
             /\ \A i \in DOMAIN opLog[w] : i > 4 => opLog[w][i] = "Logout"
             /\ IF hasStore
                THEN /\ storeLog[w] = 1
                     /\ info[w].Hostname \in DOMAIN store
                     /\ store[info[w].Hostname] =
                          Entry(info[w].Hostname, info[w].Domain,
                                info[w].Subdomain, hostIP[w], "A")
                ELSE storeLog[w] = 0 /\ ~persistFailed[w]

\* the update succeeded, the store update failed and ProcessHostInfo is
\* about to return nil
C20_Witness ==
    \E w \in Workers :
        /\ pc[w] = "unlock" /\ persistFailed[w] /\ ret[w] = "nil"
        /\ Count(opLog[w], "UpdateDnsRecords") = 1
        /\ info[w].Hostname \in knownHosts

\* C21: dry-run off, a ProcessHostInfo that found no "A" record for its
\* label sends Login, InfoDnsZone, InfoDnsRecords and then one
\* UpdateDnsRecords for info.Domain whose record set is the single record
\* (Subdomain, "A", hostIP); a nil return comes only after that call, and
\* the state entry of the hostname then holds hostIP.
C21_CreateCase ==
    \A w \in Workers :
        (decided[w] = "create" /\ ~dryRun) =>
            /\ Count(opLog[w], "UpdateDnsRecords") <= 1
            /\ Count(opLog[w], "UpdateDnsRecords") = 1 =>
                  /\ SubSeq(opLog[w], 1, 4) =
                        <<"Login", "InfoDnsZone", "InfoDnsRecords",
                          "UpdateDnsRecords">>
                  /\ updateReq = [zone |-> info[w].Domain,
                                  set |-> <<[Hostname |-> info[w].Subdomain,
                                             Type |-> "A",
                                             Destination |-> hostIP[w]]>>]
            /\ ret[w] = "nil" =>
                  /\ Count(opLog[w], "UpdateDnsRecords") = 1
                  /\ hasStore =>
                        /\ info[w].Hostname \in DOMAIN store
                        /\ store[info[w].Hostname].IP = hostIP[w]

\* a create that succeeded and was persisted
C21_Witness ==
    \E w \in Workers :
        /\ decided[w] = "create" /\ ~dryRun /\ hasStore
        /\ pc[w] = "unlock" /\ ret[w] = "nil"
        /\ hostIP[w] = "ip2"

\* C22: the worker that is between the known-hosts check and the deferred
\* Unlock of ProcessHostInfo holds Manager.mu, so no two workers are there
\* at once and the Login..Logout sections of two invocations do not overlap.
C22_OneAtATime ==
    \A w1, w2 \in Workers :
        LET Locked(w) == pc[w] \in {"check", "login", "zone", "records",
                                    "upsert", "mark", "persist", "logout",
                                    "unlock"}
        IN  /\ Locked(w1) => mu = w1
            /\ (Locked(w1) /\ Locked(w2)) => w1 = w2

\* one worker is sending UpdateDnsRecords while another waits for the mutex
C22_Witness ==
    \E w1, w2 \in Workers :
        /\ pc[w1] = "upsert" /\ pc[w2] = "lock"
        /\ info[w1].Hostname = info[w2].Hostname

\* C23: while ReconcileFromState is between its entry and its return, no
\* worker is past the Lock of ProcessHostInfo (and while a worker is,
\* ReconcileFromState is not running), so their remote calls and their
\* accesses to knownHosts never interleave.
C23_ReconcileLocked ==
    rpc \in {"login", "zone", "entry", "upsert", "persist", "mark", "logout"}
        => \A w \in Workers : pc[w] \in {"idle", "lock"}

\* C24 (as stated): a ReconcileFromState run over an empty or absent state
\* makes no remote call; any other run has, when it returns, made exactly
\* one Login and one Logout, at most one InfoDnsRecords per zone of the
\* persisted entries and at most one UpdateDnsRecords per persisted entry.
C24_Calls ==
    /\ rCount.total = 0 => rOpLog = <<>>
    /\ Count(rOpLog, "InfoDnsRecords") <= rCount.zones
    /\ Count(rOpLog, "UpdateDnsRecords") <= rCount.total
    /\ (rpc = "done" /\ rCount.total > 0) =>
          /\ Count(rOpLog, "Login") = 1
          /\ Count(rOpLog, "Logout") = 1

\* C24 (amended): the same, the one Login being made once the host address
\* is known and the one Logout once Login has succeeded; a run that fails
\* to find the host address makes no remote call, and a run whose Login
\* fails makes no other call.
C24_CallsAfterLogin ==
    /\ rCount.total = 0 => rOpLog = <<>>
    /\ Count(rOpLog, "Login") <= 1
    /\ Count(rOpLog, "Logout") <= 1
    /\ Count(rOpLog, "InfoDnsRecords") <= rCount.zones
    /\ Count(rOpLog, "UpdateDnsRecords") <= rCount.total
    /\ (rpc = "done" /\ rCount.total > 0) =>
          /\ rret = "errHostIP" => rOpLog = <<>>
          /\ rret = "errLogin" => rOpLog = <<"Login">>
          /\ rret \notin {"errHostIP", "errLogin"} =>
                /\ Count(rOpLog, "Login") = 1
                /\ Count(rOpLog, "Logout") = 1

\* a run over three entries in two zones that queried each zone once and
\* wrote at least two entries
C24_Witness ==
    /\ rpc = "done" /\ rret = "nil"
    /\ rCount.total = 3 /\ rCount.zones = 2
    /\ Count(rOpLog, "InfoDnsRecords") = 2
    /\ Count(rOpLog, "UpdateDnsRecords") >= 2
    /\ Count(rOpLog, "Logout") = 1

\* C25 (as stated): in a ReconcileFromState run every persisted entry is
\* either counted (synced, skipped, or errored after a failed
\* UpdateDnsRecords or a failed InfoDnsRecords of its zone) or still waiting
\* to be visited, and a run that returns without the context having been
\* cancelled has counted every entry and returns nil.
C25_FaultIsolated ==
    LET visited == rCount.synced + rCount.skipped + rCount.errors
        waiting == Len(rQueue) +
                   Cardinality(UNION {{<<d, i>> : i \in DOMAIN rByDomain[d]} :
                                         d \in DOMAIN rByDomain})
    IN  /\ rpc \in {"login", "zone", "entry", "upsert", "persist", "mark"}
              => visited + waiting = rCount.total
        /\ (rpc = "done" /\ rCount.total > 0 /\ ~cancelled)
              => rret = "nil" /\ visited = rCount.total

\* C25 (amended): the same for every run that found the host address and
\* whose Login succeeded; the other runs return the error and visit no
\* entry.
C25_FaultIsolatedAfterLogin ==
    LET visited == rCount.synced + rCount.skipped + rCount.errors
        waiting == Len(rQueue) +
                   Cardinality(UNION {{<<d, i>> : i \in DOMAIN rByDomain[d]} :
                                         d \in DOMAIN rByDomain})
    IN  /\ rpc \in {"login", "zone", "entry", "upsert", "persist", "mark"}
              => visited + waiting = rCount.total
        /\ (rpc = "done" /\ rCount.total > 0 /\ ~cancelled)
              => \/ rret = "nil" /\ visited = rCount.total
                 \/ rret = "errHostIP" /\ visited = 0 /\ rOpLog = <<>>
                 \/ rret = "errLogin" /\ visited = 0 /\ rOpLog = <<"Login">>
        /\ rret = "ctxErr" => cancelled

\* a run that returned nil after a failed InfoDnsRecords for one zone and a
\* failed UpdateDnsRecords for one entry of the other, which it then left
\* behind to write the next entry
C25_Witness ==
    /\ rpc = "done" /\ rret = "nil" /\ ~cancelled
    /\ rCount.total = 3 /\ rCount.errors = 2 /\ rCount.synced = 1
    /\ Count(rOpLog, "UpdateDnsRecords") = 2

\* C26: ReconcileFromState finds the host address once per run and decides
\* each entry against it, not against the address the entry holds: an entry
\* skipped as in sync has a remote "A" record with the host address, an
\* entry sent to UpdateDnsRecords has none; the record it sends carries the
\* host address, and after the state update the entry holds the host
\* address.
C26_ResolvedTarget ==
    [][LET sub == Head(rQueue).Subdomain
           remoteHasHostIP ==
               sub \in DOMAIN rExisting /\ rExisting[sub] = rHostIP
       IN  /\ (rpc = "mark" /\ rPending = "skipped" /\ ~dryRun)
                 => remoteHasHostIP
           /\ rpc = "upsert" => ~remoteHasHostIP
           /\ (rpc = "mark" /\ rPending = "synced") =>
                 /\ Head(rQueue).Hostname \in DOMAIN store
                 /\ store[Head(rQueue).Hostname].IP = rHostIP
           /\ rpc \in {"login", "zone", "entry", "upsert", "persist", "mark"}
                 => rHostIP' = rHostIP
           /\ (rpc = "upsert" /\ rpc' # "upsert") =>
                 updateReq' = [zone |-> rDomain,
                               set |-> <<[Hostname |-> sub, Type |-> "A",
                                          Destination |-> rHostIP]>>]]_vars

\* an entry whose persisted address is stale and equal to the address of
\* the remote record has been written with the host address
C26_Witness ==
    /\ rpc = "mark" /\ rPending = "synced"
    /\ Head(rQueue).IP # rHostIP
    /\ Head(rQueue).Subdomain \in DOMAIN rExisting
    /\ rExisting[Head(rQueue).Subdomain] = Head(rQueue).IP
    /\ store[Head(rQueue).Hostname].IP = rHostIP

\* C27: the decision ReconcileFromState reaches for an entry is the one the
\* scan of ProcessHostInfo reaches for the same records, label and host
\* address.
C27_SameClassification ==
    rpc \in {"mark", "upsert"} =>
        rDecision[Head(rQueue).Hostname] =
            Classify(rRecords, Head(rQueue).Subdomain, rHostIP)

\* C28: ReconcileFromState looks at the context before each entry: an
\* entry reached with the context cancelled is not decided, the run returns
\* ctx.Err() through the deferred Logout, and a run that is returning it
\* sends no further UpdateDnsRecords and counts nothing more; at each such
\* look, every entry whose UpdateDnsRecords succeeded in the run is in the
\* state with the host address and has been counted as synced.
C28_Cancellation ==
    [][/\ (rpc = "entry" /\ rQueue # <<>> /\ cancelled /\ rpc' # rpc) =>
             /\ rpc' = "logout" /\ rret' = "ctxErr"
             /\ rOpLog' = rOpLog /\ rDecision' = rDecision
       /\ (rret = "ctxErr" /\ rret' = "ctxErr") =>
             /\ rOpLog' \in {rOpLog, Append(rOpLog, "Logout")}
             /\ rCount' = rCount /\ rWritten' = rWritten
       /\ rpc = "entry" =>
             /\ \A h \in rWritten :
                    h \in DOMAIN store /\ store[h].IP = rHostIP
             /\ rCount.synced = Cardinality(rWritten)]_vars

\* a run cancelled after it wrote an entry and before it visited them all
C28_Witness ==
    /\ rpc = "done" /\ rret = "ctxErr"
    /\ rWritten # {}
    /\ rCount.synced + rCount.skipped + rCount.errors < rCount.total
    /\ rOpLog[Len(rOpLog)] = "Logout"

(***************************************************************************)
(* Claims about state.Manager (SpecStore)                                  *)
(***************************************************************************)
\* C29: a state.Manager that load() has just been run for was constructed
\* without an error, whatever the state file held; when the file was
\* missing, unreadable or not a JSON document it holds no record
\* (RecordCount 0, HasRecords false), and a missing file is reported by
\* load as not existing.
C29_LoadNeverFails ==
    (spc = "idle" /\ sOp = NoOp) =>
        /\ hasStore /\ sRet = NilErr
        /\ file.kind \in {"absent", "unreadable", "garbage", "partial"} =>
              /\ loadErr # NilErr
              /\ store = EmptyMap
              /\ RecordCount(store) = 0
              /\ ~HasRecords(store)
        /\ file.kind = "absent" <=> loadErr = "notExist"

\* a manager constructed over a file that is no JSON document
C29_Witness ==
    /\ spc = "idle" /\ sOp = NoOp /\ hasStore
    /\ file = Garbage /\ store = EmptyMap /\ sRet = NilErr

\* C30: while every UpdateRecord and RemoveRecord so far has returned nil,
\* the records of the manager are those of the reference map, field by
\* field, RecordCount is the number of its hostnames and HasRecords says
\* whether there is one; this includes a manager a new process has loaded
\* from the state file the calls left.
C30_ReferenceMap ==
    (spc = "idle" /\ clean /\ hasStore) =>
        /\ DOMAIN store = DOMAIN ref
        /\ \A h \in DOMAIN ref :
              /\ store[h].Hostname = ref[h].Hostname
              /\ store[h].Domain = ref[h].Domain
              /\ store[h].Subdomain = ref[h].Subdomain
              /\ store[h].IP = ref[h].IP
              /\ store[h].RecordType = ref[h].RecordType
        /\ RecordCount(store) = Cardinality(DOMAIN ref)
        /\ HasRecords(store) <=> RecordCount(store) > 0

\* a new process has loaded two entries that calls of an earlier process
\* left in the state file
C30_Witness ==
    /\ spc = "idle" /\ clean /\ hasStore /\ sOp = NoOp
    /\ DOMAIN store = {<<"app", "example", "com">>, <<"example", "org">>}
    /\ store[<<"app", "example", "com">>].IP = "ip1"
    /\ store[<<"example", "org">>].IP = "ip2"
    /\ store[<<"example", "org">>].Subdomain = <<"@">>

\* C31: the state file is never a document cut short: it changes only when
\* the rename of a save succeeds, and then to the complete serialisation of
\* the map the manager holds, with no temp file left and nil returned; a
\* crash or a failed write leaves it as it was; a failed rename leaves it as
\* it was, removes the temp file and returns the error.
C31_Durability ==
    [][/\ file.kind # "partial" /\ file'.kind # "partial"
       /\ file' # file =>
             /\ spc = "rename" /\ spc' = "idle"
             /\ file' = Marshal(store) /\ store' = store
             /\ sRet' = NilErr
       /\ (spc = "rename" /\ spc' = "idle" /\ sRet' = NilErr) =>
             /\ tmp' = Absent
             /\ file' = Marshal(store)
       /\ (spc = "rename" /\ spc' = "idle" /\ sRet' # NilErr) =>
             /\ sRet' = "errRename"
             /\ tmp' = Absent
             /\ file' = file
       /\ (spc \in {"write", "rename"} /\ spc' = "down") => file' = file
       /\ (spc = "write" /\ spc' = "idle") =>
             /\ sRet' = "errWrite" /\ file' = file]_vars

\* a rename has failed after an earlier save went through: the file holds
\* the earlier map, the manager holds another one, and no temp file is left
C31_Witness ==
    /\ spc = "idle" /\ sRet = "errRename"
    /\ tmp = Absent
    /\ file.kind = "json" /\ DOMAIN file.records # {}
    /\ file # Marshal(store)

(***************************************************************************)
(* Claims about splitHostname (SpecSplit)                                  *)
(***************************************************************************)
\* C32: for a hostname of three or more labels the domain is its last two
\* labels joined by ".", the subdomain is the labels before them joined by
\* ".", and subdomain, ".", domain put together give the hostname back; for
\* a hostname of two labels or fewer the domain is the hostname and the
\* subdomain is "@".  The labels of the results are those splitHostname
\* gives on the sequence of labels.
C32_ZoneSplit ==
    hpc = "out" =>
        LET parts == Split(hostname)
            n == Len(parts)
        IN  /\ n >= 3 =>
                  /\ domain = parts[n - 1] \o <<".">> \o parts[n]
                  /\ subdomain = Join(SubSeq(parts, 1, n - 2))
                  /\ Split(subdomain) = SubSeq(parts, 1, n - 2)
                  /\ subdomain \o <<".">> \o domain = hostname
                  /\ Split(subdomain) = splitHostname(parts).subdomain
            /\ n <= 2 =>
                  /\ domain = hostname
                  /\ subdomain = At
            /\ Split(domain) = splitHostname(parts).domain

\* "a.b.a.b" has been split into "a.b" and "a.b"
C32_Witness ==
    /\ hpc = "out"
    /\ hostname = <<"a", ".", "b", ".", "a", ".", "b">>
    /\ domain = <<"a", ".", "b">> /\ subdomain = <<"a", ".", "b">>

(***************************************************************************)
(* Further claims about the breaker and the retry loop (SpecClient,        *)
(* SpecRecover)                                                            *)
(***************************************************************************)
\* C33: under every interleaving of the callers, a closed breaker has
\* failureCount below the threshold, a half-open breaker has failureCount 0
\* and successCount below halfOpenMaxReqs, a breaker that is not half-open
\* has successCount 0, and a call is rejected only by a breaker that is
\* open: the half-open test on the two counters never rejects one.
C33_BreakerInvariants ==
    [][/\ threshold >= 1 /\ halfOpenMaxReqs >= 1
       /\ cb.state = StateClosed => cb.failureCount < threshold
       /\ cb'.state = StateClosed => cb'.failureCount < threshold
       /\ cb.state = StateHalfOpen =>
             cb.failureCount = 0 /\ cb.successCount < halfOpenMaxReqs
       /\ cb'.state = StateHalfOpen =>
             cb'.failureCount = 0 /\ cb'.successCount < halfOpenMaxReqs
       /\ cb.state # StateHalfOpen => cb.successCount = 0
       /\ cb'.state # StateHalfOpen => cb'.successCount = 0
       /\ \A c \in Callers :
             (cpc[c] = "call" /\ callErr'[c] = ErrCircuitOpen) =>
                 cb'.state = StateOpen
      ]_vars

\* a half-open breaker that has counted one successful probe of the two it
\* needs, while another caller has just been rejected by the open breaker
C33_Witness ==
    /\ cb.state = StateHalfOpen /\ halfOpenMaxReqs = 2
    /\ cb.successCount = 1 /\ cb.failureCount = 0
    /\ \E c \in Callers : callErr[c] = ErrCircuitOpen

\* no failure of a doPost that ran before the service recovered is still to
\* be recorded by the breaker
NoStale == \A c \in Callers : cpc[c] = "exit" => lastErr[c] = SuccessMarker

\* C34: once the service answers every doPost and the breaker is open with
\* more than the timeout passed since lastFailureTime, or half-open, callers
\* that keep calling bring the breaker to closed; and once it is closed
\* while the service answers, it stays closed and rejects no call.
C34_Recovery ==
    /\ (/\ healthy /\ NoStale
        /\ \/ cb.state = StateOpen /\ now - cb.lastFailureTime > timeout
           \/ cb.state = StateHalfOpen)
          ~> (cb.state = StateClosed)
    /\ [](/\ healthy /\ NoStale /\ cb.state = StateClosed
          => [](cb.state = StateClosed))

\* the service has recovered, and the breaker that was opened by failures
\* has been closed by the probes that followed
C34_Witness ==
    /\ healthy /\ NoStale
    /\ cb.state = StateClosed /\ cb.lastFailureTime > 0
    /\ halfOpenMaxReqs = 2
    /\ \E c \in Callers : result[c].kind = "ok"

(***************************************************************************)
(* Claims about one doPostWithRetry at a time (SpecExecute)                *)
(***************************************************************************)
\* the doPostWithRetry of c has returned, it was entered with the breaker
\* closed, and every attempt that reached the transport failed with a
\* retryable error
AllFailedRetryably(c) ==
    /\ cpc[c] = "done"
    /\ opStart[c].cb.state = StateClosed
    /\ \/ result[c].kind = "circuitOpen"
       \/ result[c].kind = "maxRetries" /\ isRetryableError(lastErr[c])

\* the number of transport calls and the result the statement gives for
\* an entry with failure counter f
CountedIndividually(c) ==
    LET f == opStart[c].cb.failureCount
        most == IF maxRetries + 1 <= threshold - f
                THEN maxRetries + 1 ELSE threshold - f
    IN  /\ transportCalls[c] = most
        /\ threshold - f <= maxRetries =>
              /\ cb.state = StateOpen
              /\ result[c].kind = "circuitOpen"
        /\ threshold - f > maxRetries => result[c].kind = "maxRetries"

\* C35 as stated: a doPostWithRetry entered with the breaker closed and
\* failure counter f, whose attempts all fail with a retryable error, calls
\* the transport exactly min(MaxRetries + 1, threshold - f) times, and when
\* threshold - f <= MaxRetries it leaves the breaker open and returns the
\* circuit-open error.
C35_AttemptsCounted ==
    \A c \in Callers : AllFailedRetryably(c) => CountedIndividually(c)

\* C35: the same for a doPostWithRetry that has lasted no longer than the
\* timeout of the breaker; and a caller is at the transport only through a
\* breaker that has let it through and is not open.
C35_AttemptsCountedInTime ==
    \A c \in Callers :
        /\ (AllFailedRetryably(c) /\ now - opStart[c].t <= timeout) =>
              CountedIndividually(c)
        /\ cpc[c] \in {"fn", "exit"} => cb.state # StateOpen

\* threshold 2, entered with one failure counted, MaxRetries 2: the first
\* attempt opened the breaker and the second was rejected
C35_Witness ==
    /\ AllFailedRetryably("c1") /\ now - opStart["c1"].t <= timeout
    /\ threshold = 2 /\ opStart["c1"].cb.failureCount = 1 /\ maxRetries = 2
    /\ transportCalls["c1"] = 1 /\ sleeps["c1"] = 1
    /\ result["c1"].kind = "circuitOpen" /\ cb.state = StateOpen

\* C36: when doPost has returned a body whose status is "error", the
\* breaker records a success: closed, it stays closed with failureCount 0;
\* the caller of the session operation still gets the error of
\* handleResponse.  The breaker opens only on a step that records an error
\* doPost returned, so bodies with an error status never open it.
C36_TransportOnly ==
    [][/\ \A c \in Callers :
             (/\ cpc[c] = "exit" /\ cpc'[c] = "check"
              /\ lastErr[c] = SuccessMarker /\ respBuf[c] = "error") =>
                 /\ callErr'[c] = NilErr
                 /\ cb.state = StateClosed =>
                       /\ cb'.state = StateClosed
                       /\ cb'.failureCount = 0
                 /\ cb'.state = StateOpen => cb' = cb
                 /\ SessionOpErr([kind |-> "ok", cause |-> NilErr],
                                 respBuf[c]) # NilErr
       /\ (cb.state # StateOpen /\ cb'.state = StateOpen) =>
             \E c \in Callers :
                 /\ cpc[c] = "exit" /\ cpc'[c] = "check"
                 /\ lastErr[c] \in TransportErrs
      ]_vars

\* threshold 2: after one counted failure a body with an error status has
\* set failureCount back to 0, and its caller got the body
C36_Witness ==
    /\ threshold = 2 /\ cb.state = StateClosed /\ cb.failureCount = 0
    /\ cb.lastFailureTime > 0
    /\ \E c \in Callers :
          /\ cpc[c] = "done" /\ result[c].kind = "ok" /\ respBuf[c] = "error"
          /\ attempt[c] = 1

(***************************************************************************)
(* Further claims about dns.Manager (SpecReconcile)                        *)
(***************************************************************************)
\* records hold an "A" record for label sub whose destination is ip
HoldsTarget(records, sub, ip) ==
    \E i \in DOMAIN records :
        /\ records[i].Hostname = sub /\ records[i].Type = "A"
        /\ records[i].Destination = ip

\* C37: knownHosts only grows, and a hostname enters it only in a
\* ProcessHostInfo or ReconcileFromState that is handling that hostname and
\* has either found an "A" record of its label equal to the host address in
\* the records it read, or reached a create or update decision in dry-run,
\* or had its UpdateDnsRecords succeed; a step that fails (host address,
\* Login, InfoDnsZone, InfoDnsRecords, UpdateDnsRecords) leaves it as it is.
C37_KnownHosts ==
    [][/\ knownHosts \subseteq knownHosts'
       /\ \A h \in knownHosts' \ knownHosts :
             \/ \E w \in Workers :
                   /\ pc[w] = "mark" /\ info[w].Hostname = h
                   /\ \/ decided[w] = "insync"
                      \/ dryRun /\ decided[w] \in {"create", "update"}
                      \/ /\ ~dryRun /\ decided[w] \in {"create", "update"}
                         /\ opLog[w][Len(opLog[w])] = "UpdateDnsRecords"
                         /\ ret[w] = "none"
                         /\ phiUpsertsOk[h] > 0
             \/ /\ rpc = "mark" /\ Head(rQueue).Hostname = h
                /\ \/ rDecision[h] = "insync"
                   \/ dryRun /\ rDecision[h] \in {"create", "update"}
                   \/ /\ ~dryRun /\ rDecision[h] \in {"create", "update"}
                      /\ h \in rWritten
       /\ \A w \in Workers :
             /\ (decided[w] # "insync" /\ decided'[w] = "insync") =>
                   HoldsTarget(remote[info[w].Domain], info[w].Subdomain,
                               hostIP[w])
             /\ (ret[w] = "none" /\ ret'[w] \notin {"none", "nil"}) =>
                   knownHosts' = knownHosts
       /\ \A h \in DOMAIN rDecision' \ DOMAIN rDecision :
             rDecision'[h] = "insync" =>
                 HoldsTarget(rRecords, Head(rQueue).Subdomain, rHostIP)
       /\ (rret' # rret /\ rret' \notin {"none", "nil"}) =>
             knownHosts' = knownHosts
       /\ rCount'.errors > rCount.errors => knownHosts' = knownHosts
      ]_vars

\* a ProcessHostInfo whose UpdateDnsRecords failed has returned, and its
\* hostname is not known, while the reconciliation has made another known
C37_Witness ==
    /\ \E w \in Workers :
          /\ pc[w] = "unlock" /\ ret[w] = "errUpdate"
          /\ info[w].Hostname \notin knownHosts
    /\ knownHosts # {} /\ rWritten # {} /\ rWritten \subseteq knownHosts

\* C38: the map of the state manager changes only in a ProcessHostInfo or
\* ReconcileFromState whose last remote call was an UpdateDnsRecords for
\* that hostname that succeeded, outside dry-run and not on the in-sync
\* path, and the change sets the entry of that hostname to the address
\* written; no entry is ever removed and no other entry changes.
C38_PersistAfterUpsert ==
    [][/\ store' # store =>
             /\ DOMAIN store \subseteq DOMAIN store'
             /\ hasStore /\ ~dryRun
             /\ \/ \E w \in Workers : storeLog'[w] > storeLog[w]
                \/ rpc = "persist" /\ rpc' = "mark"
       /\ \A w \in Workers :
             storeLog'[w] > storeLog[w] =>
                 LET h == info[w].Hostname
                 IN  /\ pc[w] = "persist"
                     /\ decided[w] \in {"create", "update"}
                     /\ opLog[w][Len(opLog[w])] = "UpdateDnsRecords"
                     /\ ret[w] = "none"
                     /\ phiUpsertsOk[h] > 0
                     /\ DOMAIN store' = DOMAIN store \cup {h}
                     /\ store'[h].IP = hostIP[w]
                     /\ \A x \in DOMAIN store \ {h} : store'[x] = store[x]
       /\ (rpc = "persist" /\ rpc' = "mark") =>
             LET h == Head(rQueue).Hostname
             IN  /\ rDecision[h] \in {"create", "update"}
                 /\ rOpLog[Len(rOpLog)] = "UpdateDnsRecords"
                 /\ h \in rWritten
                 /\ DOMAIN store' = DOMAIN store \cup {h}
                 /\ store'[h].IP = rHostIP
                 /\ \A x \in DOMAIN store \ {h} : store'[x] = store[x]
      ]_vars

\* the reconciliation has rewritten the entry of a hostname whose record it
\* has just updated, and the entries of the other hostnames are still there
C38_Witness ==
    /\ rpc = "mark" /\ rPending = "synced"
    /\ Head(rQueue).Hostname \in rWritten
    /\ store[Head(rQueue).Hostname].IP = "ip2"
    /\ DOMAIN store = Hosts
    /\ \E h \in Hosts : store[h].IP = "ip1"

\* C39: a ReconcileFromState that returns nil has counted every entry it
\* read exactly once among synced, already in sync and errors; synced is
\* incremented only for an entry whose UpdateDnsRecords succeeded, a failed
\* InfoDnsRecords adds all entries of its zone to errors and nothing else,
\* and already in sync is incremented only for an entry whose remote record
\* equals the host address.
C39_Counters ==
    [][/\ (rpc' = "done" /\ rret' = "nil") =>
             rCount'.synced + rCount'.skipped + rCount'.errors = rCount'.total
       /\ rCount'.synced > rCount.synced =>
             /\ rCount'.synced = rCount.synced + 1
             /\ rpc = "mark"
             /\ Head(rQueue).Hostname \in rWritten
       /\ (rpc = "zone" /\ rOpLog' # rOpLog /\ rpc' # "entry") =>
             /\ rCount'.errors = rCount.errors + Len(rByDomain[rDomain'])
             /\ rCount'.synced = rCount.synced
             /\ rCount'.skipped = rCount.skipped
       /\ rCount'.skipped > rCount.skipped =>
             /\ rCount'.skipped = rCount.skipped + 1
             /\ rpc = "mark"
             /\ HoldsTarget(rRecords, Head(rQueue).Subdomain, rHostIP)
      ]_vars

(***************************************************************************)
(* Further claim about state.Manager (SpecStore)                           *)
(***************************************************************************)
\* C40: an UpdateRecord or RemoveRecord whose save fails at the write of
\* the temp file or at the rename returns an error and leaves the state
\* file as it was, a complete document or none, while the map keeps the
\* change: GetRecord gives the new entry, or none after a RemoveRecord; and
\* the next save that goes through, for another hostname, writes that
\* change to the state file together with its own.
C40_ChangeKept ==
    [][/\ (spc \in {"write", "rename"} /\ spc' = "idle" /\ sRet' # NilErr) =>
             /\ sRet' \in {"errWrite", "errRename"}
             /\ file' = file /\ file'.kind # "partial"
             /\ sOp.op = "update" =>
                   /\ GetRecord(store', sOp.h).ok
                   /\ GetRecord(store', sOp.h).rec.IP = sOp.ip
                   /\ GetRecord(store', sOp.h).rec.Hostname = sOp.h
             /\ sOp.op = "remove" => ~GetRecord(store', sOp.h).ok
             /\ \A h \in Hosts \ {sOp.h} :
                   GetRecord(store', h) = GetRecord(store, h)
       /\ (/\ spc = "rename" /\ spc' = "idle" /\ sRet' = NilErr
           /\ pending.op # "none" /\ ~pending.saved /\ sOp.h # pending.h) =>
             /\ file'.kind = "json"
             /\ pending.op = "update" =>
                   /\ pending.h \in DOMAIN file'.records
                   /\ file'.records[pending.h].ip = pending.ip
                   /\ file'.records[pending.h].hostname = pending.h
             /\ pending.op = "remove" => pending.h \notin DOMAIN file'.records
             /\ sOp.op = "update" =>
                   /\ sOp.h \in DOMAIN file'.records
                   /\ file'.records[sOp.h].ip = sOp.ip
      ]_vars

\* an UpdateRecord of app.example.com has returned an error, and the save
\* of a later UpdateRecord of example.org has put both entries in the file
C40_Witness ==
    /\ spc = "idle" /\ sRet = NilErr
    /\ pending.op = "update" /\ pending.saved
    /\ pending.h = <<"app", "example", "com">> /\ pending.ip = "ip2"
    /\ file.kind = "json"
    /\ DOMAIN file.records = {<<"app", "example", "com">>, <<"example", "org">>}
    /\ file.records[<<"app", "example", "com">>].ip = "ip2"
====
